---- MODULE Spec2Model ----
(***************************************************************************)
(* A model of the University of Malakand chatbot repository:               *)
(*   - data_scraper.py : the breadth-first crawler (specification Spec)    *)
(*   - uom_ai_chatbot.py : the knowledge base and the chatbot              *)
(*   - flask_server.py : the server that owns the live chatbot instance    *)
(* Text is modelled by strings, read character by character.               *)
(***************************************************************************)
EXTENDS Integers, Sequences, FiniteSets, TLC

VARIABLES
    \* data_scraper.py
    site,           \* the web site: what a successful fetch of each URL returns
    queue,          \* crawl(): the Frontier
    visited_urls,   \* module global
    pdf_links,      \* module global
    files,          \* output_dir: file name -> content
    fetched,        \* history: the URLs popped from the queue, in order
    enqueued,       \* history: the URLs appended to the queue, in order
    failed,         \* history: the URLs whose fetch raised RequestException
    pc,             \* position in the script: "start", "loop", "done"
    previous,       \* history: what each earlier run of the script ended with
    \* uom_ai_chatbot.py
    kb,                     \* UniversityAIChatbot.kb, a UniversityKnowledgeBase
    conversation_history,   \* UniversityAIChatbot.conversation_history
    clock,          \* the readings of datetime.now() so far
    call,           \* the method call under way: its name and arguments
    ret,            \* what the call returned or raised
    \* flask_server.py
    db_file,            \* university_data/university_knowledge.db
    CHATBOT_AVAILABLE,  \* module global: the imports succeeded
    chatbot_instance,   \* module global: 0 (None) or a reference into heap
    heap,               \* the UniversityAIChatbot objects allocated so far
    threads,            \* the main thread and the threads of run_scraper
    requests            \* the POST /api/chat requests and their handler threads

crawlVars ==
    <<site, queue, visited_urls, pdf_links, files, fetched, enqueued, failed, pc,
      previous>>
botVars == <<kb, conversation_history, clock, call, ret>>

serverVars == <<db_file, CHATBOT_AVAILABLE, chatbot_instance, heap, threads, requests>>

vars == <<crawlVars, botVars, serverVars>>

-----------------------------------------------------------------------------
(* Strings *)

Ch(s, i) == SubSeq(s, i, i)

\* the elements of a sequence
Range(f) == {f[i] : i \in DOMAIN f}

UpperCase == <<"A","B","C","D","E","F","G","H","I","J","K","L","M",
               "N","O","P","Q","R","S","T","U","V","W","X","Y","Z">>
LowerCase == <<"a","b","c","d","e","f","g","h","i","j","k","l","m",
               "n","o","p","q","r","s","t","u","v","w","x","y","z">>

Letters == Range(LowerCase) \cup Range(UpperCase)

LowerOf == [c \in Range(UpperCase) |-> LowerCase[CHOOSE i \in 1..26 : UpperCase[i] = c]]

\* str.lower() on one character
LowerCh(c) == IF c \in DOMAIN LowerOf THEN LowerOf[c] ELSE c

RECURSIVE Lower(_)
Lower(s) == IF s = "" THEN "" ELSE LowerCh(Ch(s, 1)) \o Lower(Tail(s))

\* str.endswith
EndsWith(s, suffix) ==
    /\ Len(s) >= Len(suffix)
    /\ SubSeq(s, Len(s) - Len(suffix) + 1, Len(s)) = suffix

\* k in s, for strings
Contains(s, k) ==
    \E i \in 1..(Len(s) - Len(k) + 1) : SubSeq(s, i, i + Len(k) - 1) = k

\* s.strip(c) for a one-character c
RECURSIVE LStrip(_, _)
LStrip(s, c) == IF s # "" /\ Ch(s, 1) = c THEN LStrip(Tail(s), c) ELSE s
RECURSIVE RStrip(_, _)
RStrip(s, c) ==
    IF s # "" /\ Ch(s, Len(s)) = c THEN RStrip(SubSeq(s, 1, Len(s) - 1), c) ELSE s
Strip(s, c) == RStrip(LStrip(s, c), c)

\* s.replace(a, b) for one-character a
RECURSIVE Replace(_, _, _)
Replace(s, a, b) ==
    IF s = "" THEN ""
    ELSE (IF Ch(s, 1) = a THEN b ELSE Ch(s, 1)) \o Replace(Tail(s), a, b)

\* the orders in which a set can be listed: list(set) has no defined order
Orders(S) == {f \in [1..Cardinality(S) -> S] : Range(f) = S}

-----------------------------------------------------------------------------
(* data_scraper.py : URLs *)

\* An absolute URL, as urljoin(url, href) yields it: frag = "" means no '#'.
Url(scheme, host, path, frag) ==
    [scheme |-> scheme, host |-> host, path |-> path, frag |-> frag]

base_url == Url("https", "uom.edu.pk", "", "")

\* the text of a URL after its host (no query strings on this site)
Rest(u) == u.path \o (IF u.frag = "" THEN "" ELSE "#" \o u.frag)

\* is_valid without the comparison of the host
is_valid_any_host(url) == url.scheme \in {"http", "https"}

is_valid(url) ==
    /\ url.scheme \in {"http", "https"}
    /\ url.host = base_url.host

\* if '#' in full_url: full_url = full_url.split('#')[0]
StripFragment(u) == [u EXCEPT !.frag = ""]

\* full_url.lower().endswith('.pdf')
IsPdf(u) == EndsWith(Lower(Rest(u)), ".pdf")

\* save_content: the file name of a URL
Filename(url) ==
    LET name == Replace(Strip(url.path, "/"), "/", "_")
    IN  (IF name = "" THEN "index" ELSE name) \o ".txt"

-----------------------------------------------------------------------------
(* The site the crawler runs on *)

PageA    == Url("https", "uom.edu.pk", "/a", "")
PageAtop == Url("https", "uom.edu.pk", "/a", "top")
PageB    == Url("https", "uom.edu.pk", "/a/b", "")
PageC    == Url("https", "uom.edu.pk", "/a_b", "")
Doc      == Url("https", "uom.edu.pk", "/doc.PDF", "")
DocFrag  == Url("https", "uom.edu.pk", "/doc.PDF", "p2")
OffSite  == Url("https", "example.org", "/a", "")
MailTo   == Url("mailto", "", "info@uom.edu.pk", "")
OffDoc   == Url("https", "example.org", "/x.pdf", "")

\* the URLs of the host that answer with HTML
HtmlUrls == {base_url, PageA, PageB, PageC}

\* the anchors a page may carry, as resolved by urljoin, in document order
AnchorLists ==
    { <<>>,
      <<PageA, PageB, OffSite>>,
      <<PageAtop, base_url, Doc, Doc>>,
      <<PageC, PageA, DocFrag, MailTo, OffDoc>> }

\* the paragraph text a page may carry: "" is a page without paragraphs
Texts(url) ==
    CASE url = base_url -> {"", "welcome"}
      [] url = PageA    -> {"about"}
      [] url = PageB    -> {"", "staff"}
      [] url = PageC    -> {"contact"}
      [] OTHER          -> {""}

\* what a successful fetch returns: the anchors and the paragraph text of
\* each URL of the host (the PDF document parses to neither)
Sites ==
    { [u \in HtmlUrls \cup {Doc} |->
          IF u = Doc THEN [anchors |-> <<>>, text |-> ""]
          ELSE [anchors |-> a[u], text |-> t[u]]] :
        a \in [HtmlUrls -> AnchorLists],
        t \in {f \in [HtmlUrls -> {"", "welcome", "about", "staff", "contact"}] :
                  \A u \in HtmlUrls : f[u] \in Texts(u)} }

-----------------------------------------------------------------------------
(* data_scraper.py : the crawl *)

\* the anchors of the page as urljoin resolved them, lines 43-44 left out
PageLinksWithFragment(url) ==
    { site[url].anchors[i] : i \in DOMAIN site[url].anchors }

\* get_all_links, the try branch: the links of the page not yet visited
PageLinks(url) ==
    { StripFragment(site[url].anchors[i]) : i \in DOMAIN site[url].anchors }

NewLinks(url) == { l \in PageLinks(url) : is_valid(l) /\ l \notin visited_urls }

\* save_content without the test of line 65: the file is written anyway
save_content_overwrite(fs, url, content) ==
    [n \in DOMAIN fs \cup {Filename(url)} |->
        IF n = Filename(url) THEN content ELSE fs[n]]

\* save_content that keeps the old file and writes the text beside it
save_content_beside(fs, url, content) ==
    LET name == IF Filename(url) \in DOMAIN fs
                THEN Filename(url) \o ".new" ELSE Filename(url)
    IN  [n \in DOMAIN fs \cup {name} |-> IF n = name THEN content ELSE fs[n]]

\* save_content: an existing file is left alone
save_content(fs, url, content) ==
    IF Filename(url) \in DOMAIN fs
    THEN fs
    ELSE [n \in DOMAIN fs \cup {Filename(url)} |->
            IF n = Filename(url) THEN content ELSE fs[n]]

\* find_pdfs without the test of line 80: every .pdf anchor is appended
RECURSIVE find_pdfs_unchecked(_, _, _)
find_pdfs_unchecked(pdfs, anchors, i) ==
    IF i > Len(anchors) THEN pdfs
    ELSE find_pdfs_unchecked(
            IF IsPdf(anchors[i]) THEN Append(pdfs, anchors[i]) ELSE pdfs,
            anchors, i + 1)

\* find_pdfs: the loop over the anchors, from anchor i on
RECURSIVE find_pdfs(_, _, _)
find_pdfs(pdfs, anchors, i) ==
    IF i > Len(anchors) THEN pdfs
    ELSE find_pdfs(
            IF IsPdf(anchors[i]) /\ anchors[i] \notin Range(pdfs)
            THEN Append(pdfs, anchors[i]) ELSE pdfs,
            anchors, i + 1)

\* AddLinks without line 111: an admitted link is not marked visited
RECURSIVE AddLinksUnmarked(_, _, _, _)
AddLinksUnmarked(q, visited, links, i) ==
    IF i > Len(links) THEN [queue |-> q, visited |-> visited]
    ELSE IF links[i] \notin visited
         THEN AddLinksUnmarked(Append(q, links[i]), visited, links, i + 1)
         ELSE AddLinksUnmarked(q, visited, links, i + 1)

\* crawl, lines 109-112: the loop over the links
RECURSIVE AddLinks(_, _, _, _)
AddLinks(q, visited, links, i) ==
    IF i > Len(links) THEN [queue |-> q, visited |-> visited]
    ELSE IF links[i] \notin visited
         THEN AddLinks(Append(q, links[i]), visited \cup {links[i]}, links, i + 1)
         ELSE AddLinks(q, visited, links, i + 1)

\* no method call is under way
Idle == [op |-> "idle", args |-> <<>>]

\* no chatbot runs beside the scraper script
NoBot ==
    /\ kb = [pages |-> <<>>]
    /\ conversation_history = <<>>
    /\ clock = 0
    /\ call = Idle
    /\ ret = [none |-> TRUE]

\* no web server runs beside the scripts
NoServer ==
    /\ db_file = [exists |-> FALSE]
    /\ CHATBOT_AVAILABLE = FALSE
    /\ chatbot_instance = 0
    /\ heap = <<>>
    /\ threads = <<>>
    /\ requests = <<>>

Init ==
    /\ NoServer
    /\ site \in Sites
    /\ queue = <<>>
    /\ visited_urls = {}
    /\ pdf_links = <<>>
    /\ files = <<>>
    /\ fetched = <<>>
    /\ enqueued = <<>>
    /\ failed = {}
    /\ pc = "start"
    /\ previous = <<>>
    /\ NoBot

\* crawl(base_url), lines 88-89
CrawlStart ==
    /\ pc = "start"
    /\ queue' = <<base_url>>
    /\ visited_urls' = visited_urls \cup {base_url}
    /\ enqueued' = Append(enqueued, base_url)
    /\ pc' = "loop"
    /\ UNCHANGED <<site, pdf_links, files, fetched, failed, previous>>
    /\ UNCHANGED botVars
    /\ UNCHANGED serverVars

\* CrawlPage with queue.pop() in line 92: the newest entry is taken
CrawlPageFromEnd ==
    /\ pc = "loop"
    /\ queue # <<>>
    /\ LET current_url == queue[Len(queue)]
           page == site[current_url]
       IN  \E links \in Orders(NewLinks(current_url)) :
             LET seen  == visited_urls \cup {current_url}
                 added == AddLinks(SubSeq(queue, 1, Len(queue) - 1), seen, links, 1)
             IN  /\ fetched' = Append(fetched, current_url)
                 /\ files' = IF page.text # ""
                             THEN save_content(files, current_url, page.text)
                             ELSE files
                 /\ pdf_links' = find_pdfs(pdf_links, page.anchors, 1)
                 /\ queue' = added.queue
                 /\ visited_urls' = added.visited
                 /\ enqueued' = enqueued \o
                        SubSeq(added.queue, Len(queue), Len(added.queue))
    /\ UNCHANGED <<site, failed, pc, previous>>
    /\ UNCHANGED botVars
    /\ UNCHANGED serverVars

\* one pass of the while loop in which requests.get and raise_for_status succeed
CrawlPage ==
    /\ pc = "loop"
    /\ queue # <<>>
    /\ LET current_url == Head(queue)
           page == site[current_url]
       IN  \E links \in Orders(NewLinks(current_url)) :
             LET seen  == visited_urls \cup {current_url}
                 added == AddLinks(Tail(queue), seen, links, 1)
             IN  /\ fetched' = Append(fetched, current_url)
                 /\ files' = IF page.text # ""
                             THEN save_content(files, current_url, page.text)
                             ELSE files
                 /\ pdf_links' = find_pdfs(pdf_links, page.anchors, 1)
                 /\ queue' = added.queue
                 /\ visited_urls' = added.visited
                 /\ enqueued' = enqueued \o
                        SubSeq(added.queue, Len(queue), Len(added.queue))
    /\ UNCHANGED <<site, failed, pc, previous>>
    /\ UNCHANGED botVars
    /\ UNCHANGED serverVars

\* CrawlPageFails without the except clause: the exception ends the script
CrawlPageAborts ==
    /\ pc = "loop"
    /\ queue # <<>>
    /\ fetched' = Append(fetched, Head(queue))
    /\ failed' = failed \cup {Head(queue)}
    /\ queue' = Tail(queue)
    /\ pc' = "done"
    /\ UNCHANGED <<site, visited_urls, pdf_links, files, enqueued, previous>>
    /\ UNCHANGED botVars
    /\ UNCHANGED serverVars

\* CrawlPageFails with the URL taken out of visited_urls for a later retry
CrawlPageFailsForgets ==
    /\ pc = "loop"
    /\ queue # <<>>
    /\ fetched' = Append(fetched, Head(queue))
    /\ failed' = failed \cup {Head(queue)}
    /\ queue' = Tail(queue)
    /\ visited_urls' = visited_urls \ {Head(queue)}
    /\ UNCHANGED <<site, pdf_links, files, enqueued, pc, previous>>
    /\ UNCHANGED botVars
    /\ UNCHANGED serverVars

\* one pass of the while loop in which the fetch raises RequestException:
\* get_all_links returns ([], None) and the loop goes on
CrawlPageFails ==
    /\ pc = "loop"
    /\ queue # <<>>
    /\ fetched' = Append(fetched, Head(queue))
    /\ failed' = failed \cup {Head(queue)}
    /\ queue' = Tail(queue)
    /\ UNCHANGED <<site, visited_urls, pdf_links, files, enqueued, pc, previous>>
    /\ UNCHANGED botVars
    /\ UNCHANGED serverVars

\* the while loop left after the first page, whatever the queue holds
CrawlEndAfterFirstPage ==
    /\ pc = "loop"
    /\ fetched # <<>>
    /\ pc' = "done"
    /\ UNCHANGED <<site, queue, visited_urls, pdf_links, files, fetched, enqueued, failed, previous>>
    /\ UNCHANGED botVars
    /\ UNCHANGED serverVars

\* the while loop ends: the queue is empty
CrawlEnd ==
    /\ pc = "loop"
    /\ queue = <<>>
    /\ pc' = "done"
    /\ UNCHANGED <<site, queue, visited_urls, pdf_links, files, fetched, enqueued, failed, previous>>
    /\ UNCHANGED botVars
    /\ UNCHANGED serverVars

Next ==
    \/ CrawlStart
    \/ CrawlPage
    \/ CrawlPageFails
    \/ CrawlEnd

Spec == Init /\ [][Next]_vars

\* the script runs to its end: the interpreter takes the next step of the
\* single thread whenever there is one, and requests.get(url, timeout=5)
\* returns or raises
\* every way the pages may link to each other, cycles included; each page
\* has its paragraph text, which has no part in the order of the crawl
LinkedSites == { s \in Sites : \A u \in HtmlUrls : s[u].text # "" }

InitFair ==
    /\ Init
    /\ site \in LinkedSites

FairSpec == InitFair /\ [][Next]_vars /\ WF_vars(Next)

\* the most runs of the script over one output directory
MaxRuns == 2

\* the script is run again: the module globals start empty (lines 13, 16),
\* the files of output_dir are still there
RunAgain ==
    /\ pc = "done"
    /\ Len(previous) < MaxRuns - 1
    /\ previous' = Append(previous,
                      [visited_urls |-> visited_urls, files |-> files, failed |-> failed])
    /\ queue' = <<>>
    /\ visited_urls' = {}
    /\ pdf_links' = <<>>
    /\ fetched' = <<>>
    /\ enqueued' = <<>>
    /\ failed' = {}
    /\ pc' = "start"
    /\ UNCHANGED <<site, files>>
    /\ UNCHANGED botVars
    /\ UNCHANGED serverVars

\* the sites the script is run on more than once: every page has text, and
\* the anchors are on the seed and on PageA
RerunSites ==
    { s \in Sites :
        /\ \A u \in {PageB, PageC} : s[u].anchors = <<>>
        /\ \A u \in HtmlUrls : s[u].text # "" }

InitRerun ==
    /\ Init
    /\ site \in RerunSites

NextRerun ==
    \/ CrawlStart
    \/ CrawlPage
    \/ CrawlPageFails
    \/ CrawlEnd
    \/ RunAgain

SpecRerun == InitRerun /\ [][NextRerun]_vars

-----------------------------------------------------------------------------
(* Properties of the crawl *)

\* the page-count ceiling the crawl is meant to respect, scaled to the site
maxPages == 2

\* the number of times url was popped from the queue
TimesFetched(url) == Cardinality({i \in DOMAIN fetched : fetched[i] = url})

NoDuplicates(seq) == \A i, j \in DOMAIN seq : seq[i] = seq[j] => i = j

\* C2: in one crawl run the number of URLs dequeued and fetched never
\* exceeds the page-count ceiling maxPages.
C2_PageCeiling == Len(fetched) <= maxPages

\* C5: a failed fetch leaves the URL visited, saves nothing, adds no PDF
\* link and no Frontier entry, is not retried, and the crawl goes on until
\* every Frontier entry has been processed.
C5_FailedFetchLosesOnePage ==
    /\ [](\A u \in failed : u \in visited_urls /\ TimesFetched(u) = 1)
    /\ [](pc = "done" => Range(fetched) = Range(enqueued))
    /\ [][failed' # failed =>
            /\ files' = files
            /\ pdf_links' = pdf_links
            /\ enqueued' = enqueued
            /\ queue' = Tail(queue)
            /\ visited_urls' = visited_urls]_vars

\* a crawl has ended in which a fetch failed and a later page was fetched
C5_Witness ==
    /\ pc = "done"
    /\ \E i, j \in DOMAIN fetched :
          i < j /\ fetched[i] \in failed /\ fetched[j] \notin failed

\* C6: every URL is appended to the Frontier at most once and fetched at
\* most once, whatever the number of pages and link paths that lead to it.
C6_AdmittedOnce == NoDuplicates(enqueued) /\ NoDuplicates(fetched)

\* a crawl has ended in which PageA was fetched, is linked from two fetched
\* pages, and links back to the seed
C6_Witness ==
    /\ pc = "done"
    /\ PageA \in Range(fetched) \ failed
    /\ base_url \in PageLinks(PageA)
    /\ \E u, v \in Range(fetched) \ failed :
          u # v /\ PageA \in PageLinks(u) /\ PageA \in PageLinks(v)

\* the URLs that the anchors of the pages in S lead to: http(s), on the
\* host of the seed, without their fragment
LinkedFrom(S) ==
    { l \in UNION { { [site[u].anchors[i] EXCEPT !.frag = ""] :
                        i \in DOMAIN site[u].anchors } : u \in S \cap DOMAIN site } :
        l.scheme \in {"http", "https"} /\ l.host = "uom.edu.pk" }

\* the seed and every URL reachable from it through anchors
RECURSIVE ReachableFrom(_)
ReachableFrom(S) ==
    IF LinkedFrom(S) \subseteq S THEN S ELSE ReachableFrom(S \cup LinkedFrom(S))

\* the seed links to two pages of the host and one page of another host,
\* and the two pages lead nowhere else
SeedLinksTwoAndOneOff ==
    /\ site[base_url].anchors = <<PageA, PageB, OffSite>>
    /\ \A u \in {PageA, PageB} : site[u].anchors \in {<<>>, <<PageA, PageB, OffSite>>}

\* C13: the Visited Set never leaves the URLs reachable from the seed, and
\* at the end of a crawl without a failed fetch it is exactly the seed plus
\* every URL of the host reachable through anchors: 3 URLs for a seed that
\* links to two pages of the host and one page of another host.
C13_VisitedIsReachable ==
    /\ visited_urls \subseteq ReachableFrom({base_url})
    /\ pc = "done" /\ failed = {} =>
          /\ visited_urls = ReachableFrom({base_url})
          /\ SeedLinksTwoAndOneOff => Cardinality(visited_urls) = 3

\* a crawl of the seed with two links into the host and one out has ended
C13_Witness ==
    /\ pc = "done"
    /\ failed = {}
    /\ SeedLinksTwoAndOneOff
    /\ visited_urls = {base_url, PageA, PageB}

\* the pages fetched with success
Fetched == Range(fetched) \ failed

\* C14: at the end of a crawl into an empty store, every page fetched with
\* success and with non-empty paragraph text has that text stored under the
\* slug of its URL path, and nothing else is stored.
C14_NonEmptyPagesStored ==
    pc = "done" =>
        /\ \A u \in Fetched :
              site[u].text # "" =>
                  Filename(u) \in DOMAIN files /\ files[Filename(u)] = site[u].text
        /\ \A n \in DOMAIN files :
              \E u \in Fetched :
                  Filename(u) = n /\ site[u].text # "" /\ files[n] = site[u].text

\* C15: no step changes or removes a stored entry, and the step of a page
\* whose slug has an entry leaves the whole store as it is.
C15_StoredEntriesNeverChange ==
    [][/\ \A n \in DOMAIN files : n \in DOMAIN files' /\ files'[n] = files[n]
       /\ fetched' # fetched /\ Filename(Head(queue)) \in DOMAIN files =>
              files' = files]_vars

\* two pages of one slug, both with text, were fetched: the write of the
\* second one was skipped
C15_Witness ==
    /\ {PageB, PageC} \subseteq Fetched
    /\ site[PageB].text # ""
    /\ site[PageC].text # ""
    /\ Filename(PageC) \in DOMAIN files

\* the resolved URL ends in ".pdf", whatever the case of its letters
EndsInPdf(u) ==
    /\ u.frag = ""
    /\ Len(u.path) >= 4
    /\ SubSeq(u.path, Len(u.path) - 3, Len(u.path))
          \in {".pdf", ".PDF", ".Pdf", ".pDf", ".pdF", ".PDf", ".PdF", ".pDF"}

\* the places an anchor to d was met: the k-th fetch, the i-th anchor of it
Discoveries(d) ==
    { <<k, i>> \in (DOMAIN fetched) \X (1..5) :
        /\ fetched[k] \notin failed
        /\ i \in DOMAIN site[fetched[k]].anchors
        /\ site[fetched[k]].anchors[i] = d }

\* d was met before e
DiscoveredBefore(d, e) ==
    \E p \in Discoveries(d) :
        \A q \in Discoveries(e) : p[1] < q[1] \/ (p[1] = q[1] /\ p[2] < q[2])

\* C17: pdf_links holds no URL twice, holds exactly the anchors met so far
\* whose resolved URL ends in ".pdf" in any case of letters, and lists them
\* in the order in which they were first met.
C17_PdfLinksOnceInDiscoveryOrder ==
    /\ NoDuplicates(pdf_links)
    /\ \A d \in Range(pdf_links) : EndsInPdf(d) /\ Discoveries(d) # {}
    /\ \A u \in Fetched : \A i \in DOMAIN site[u].anchors :
          EndsInPdf(site[u].anchors[i]) => site[u].anchors[i] \in Range(pdf_links)
    /\ \A i, j \in DOMAIN pdf_links :
          i < j => DiscoveredBefore(pdf_links[i], pdf_links[j])

\* a fetched page carries the same .pdf anchor twice, and another .pdf anchor
\* was met before it
C17_Witness ==
    /\ pdf_links = <<OffDoc, Doc>>
    /\ \E u \in Fetched :
          \E i, j \in DOMAIN site[u].anchors :
              i < j /\ site[u].anchors[i] = Doc /\ site[u].anchors[j] = Doc

\* the run before this one
Last == previous[Len(previous)]

\* C16: a run of the script over the files of an earlier run, on a site that
\* answers every URL as it did in that run, ends with the same files, none
\* written or changed, and with a Visited Set of the same size.
C16_RerunWritesNothing ==
    pc = "done" /\ previous # <<>> /\ failed = Last.failed =>
        /\ files = Last.files
        /\ Cardinality(visited_urls) = Cardinality(Last.visited_urls)

\* the second run has ended like the first one, which had stored files, had
\* skipped a page for its slug and had lost a page to a failed fetch
C16_Witness ==
    /\ pc = "done"
    /\ previous # <<>>
    /\ failed = Last.failed
    /\ failed # {}
    /\ {PageB, PageC} \subseteq Fetched
    /\ Cardinality(visited_urls) >= 4

\* C18: PDF URLs are recorded only: no URL of pdf_links is ever appended to
\* the Frontier or fetched.
C18_PdfsAreNeverFetched ==
    \A d \in Range(pdf_links) : d \notin Range(enqueued) /\ d \notin Range(fetched)

\* C21: on a finite site, link cycles included, with every fetch returning
\* or failing, the crawl ends, and it ends exactly when the Frontier is
\* empty: never with an entry left, and at once when none is left.
C21_CrawlTerminatesOnEmptyFrontier ==
    /\ <>(pc = "done")
    /\ [](pc = "done" => queue = <<>>)
    /\ [][pc = "loop" /\ queue = <<>> => pc' = "done"]_vars
    /\ [][pc' = "done" /\ pc # "done" => queue = <<>> /\ queue' = <<>>]_vars

\* a crawl has ended on a site with a link cycle between the seed and PageA,
\* both fetched, after a failed fetch
C21_Witness ==
    /\ pc = "done"
    /\ queue = <<>>
    /\ {base_url, PageA} \subseteq Fetched
    /\ PageA \in PageLinks(base_url)
    /\ base_url \in PageLinks(PageA)
    /\ failed # {}

\* the anchors of the pages fetched so far, as resolved
AnchorsMet ==
    UNION { { site[u].anchors[i] : i \in DOMAIN site[u].anchors } : u \in Fetched }

\* C22: every URL admitted to the Frontier or the Visited Set has scheme http
\* or https, the host of the seed and no fragment; an anchor with a fragment
\* is admitted as the URL without it, so links that differ only in their
\* fragment are one URL, admitted once.
C22_AdmittedUrlsAreNormalised ==
    /\ \A u \in Range(enqueued) \cup Range(queue) \cup visited_urls :
          /\ u.scheme \in {"http", "https"}
          /\ u.host = "uom.edu.pk"
          /\ u.frag = ""
    /\ \A l \in AnchorsMet :
          l.scheme \in {"http", "https"} /\ l.host = "uom.edu.pk" =>
              /\ [l EXCEPT !.frag = ""] \in visited_urls
              /\ Cardinality({i \in DOMAIN enqueued :
                                 enqueued[i] = [l EXCEPT !.frag = ""]}) = 1

\* anchors to PageA with and without a fragment, to another host and to a
\* mail address were met, and PageA was fetched
C22_Witness ==
    /\ {PageA, PageAtop, OffSite, MailTo} \subseteq AnchorsMet
    /\ PageA \in Fetched
    /\ pc = "done"

\* the place of url in the sequence (0 if it is not there)
IndexIn(seq, url) ==
    IF url \in Range(seq) THEN CHOOSE i \in DOMAIN seq : seq[i] = url ELSE 0

\* the fetches on which an anchor to url (http(s), host of the seed, with or
\* without a fragment) was met
MetOn(url) ==
    { k \in DOMAIN fetched :
        /\ fetched[k] \notin failed
        /\ \E i \in DOMAIN site[fetched[k]].anchors :
              [site[fetched[k]].anchors[i] EXCEPT !.frag = ""] = url }

\* the fetch on which url was first discovered (0 for the seed)
FirstMetOn(url) ==
    IF url = base_url \/ MetOn(url) = {} THEN 0
    ELSE CHOOSE k \in MetOn(url) : \A m \in MetOn(url) : k <= m

\* C23: the Frontier is first-in first-out: the URLs fetched so far are, in
\* order, the first URLs admitted and the Frontier holds the others in
\* their order of admission; so a URL first discovered on an earlier fetched
\* page is fetched before a URL first discovered on a later one.
C23_FrontierIsFifo ==
    /\ enqueued = fetched \o queue
    /\ \A i, j \in DOMAIN fetched :
          FirstMetOn(fetched[i]) < FirstMetOn(fetched[j]) => i < j

\* the seed led to PageA and PageB, PageA was fetched and led to PageC while
\* PageB was waiting, and PageB was fetched before PageC
C23_Witness ==
    /\ pc = "done"
    /\ {PageA, PageB, PageC} \subseteq Fetched
    /\ FirstMetOn(PageA) = 1
    /\ FirstMetOn(PageB) = 1
    /\ IndexIn(fetched, PageA) = 2
    /\ FirstMetOn(PageC) = 2
    /\ IndexIn(fetched, PageB) < IndexIn(fetched, PageC)

\* C27: every URL of the Frontier is in the Visited Set, no step takes an
\* element out of the Visited Set, and at the end of the crawl the Visited
\* Set is the set of the URLs dequeued, each of them dequeued once.
C27_FrontierInsideGrowingVisitedSet ==
    /\ [](Range(queue) \subseteq visited_urls)
    /\ [][visited_urls \subseteq visited_urls']_vars
    /\ [](pc = "done" =>
            /\ visited_urls = Range(fetched)
            /\ \A u \in visited_urls : TimesFetched(u) = 1)

\* a crawl of five URLs has ended, with a failed fetch and with a link back
\* to a page fetched before
C27_Witness ==
    /\ pc = "done"
    /\ Cardinality(visited_urls) = 5
    /\ failed # {}
    /\ \E i, j \in DOMAIN fetched :
          i < j /\ fetched[j] \notin failed /\ fetched[i] \in PageLinks(fetched[j])

-----------------------------------------------------------------------------
(* uom_ai_chatbot.py : UniversityKnowledgeBase, text processing *)

stopwords ==
    {"the", "a", "an", "and", "or", "but", "in", "on", "at", "to", "for",
     "of", "with", "by", "is", "are", "was", "were", "be", "been", "have",
     "has", "had", "do", "does", "did", "will", "would", "could", "should"}

Digits == {"0", "1", "2", "3", "4", "5", "6", "7", "8", "9"}

\* \w and \s of the regular expressions, over the characters of the model
WordChars == Letters \cup Digits \cup {"_"}
IsWordCh(c) == c \in WordChars
IsSpaceCh(c) == c = " " \/ c = "\n"

\* re.sub(r'[^\w\s]', ' ', text)
RECURSIVE SubNonWord(_)
SubNonWord(s) ==
    IF s = "" THEN ""
    ELSE (IF IsWordCh(Ch(s, 1)) \/ IsSpaceCh(Ch(s, 1)) THEN Ch(s, 1) ELSE " ")
            \o SubNonWord(Tail(s))

\* text.split(): the maximal runs of non-space characters; cur is the run
\* being read
RECURSIVE SplitFrom(_, _)
SplitFrom(s, cur) ==
    IF s = "" THEN (IF cur = "" THEN <<>> ELSE <<cur>>)
    ELSE IF IsSpaceCh(Ch(s, 1))
         THEN (IF cur = "" THEN <<>> ELSE <<cur>>) \o SplitFrom(Tail(s), "")
         ELSE SplitFrom(Tail(s), cur \o Ch(s, 1))

Split(s) == SplitFrom(s, "")

\* text.split(sep) for a one-character separator: empty pieces are kept
RECURSIVE SplitOnFrom(_, _, _)
SplitOnFrom(s, sep, cur) ==
    IF s = "" THEN <<cur>>
    ELSE IF Ch(s, 1) = sep
         THEN <<cur>> \o SplitOnFrom(Tail(s), sep, "")
         ELSE SplitOnFrom(Tail(s), sep, cur \o Ch(s, 1))

SplitOn(s, sep) == SplitOnFrom(s, sep, "")

\* s.strip(): white space off both ends
RECURSIVE StripSpace(_)
StripSpace(s) ==
    IF s # "" /\ IsSpaceCh(Ch(s, 1)) THEN StripSpace(Tail(s))
    ELSE IF s # "" /\ IsSpaceCh(Ch(s, Len(s)))
         THEN StripSpace(SubSeq(s, 1, Len(s) - 1))
         ELSE s

\* s[:n]
Prefix(s, n) == SubSeq(s, 1, IF n < Len(s) THEN n ELSE Len(s))

\* preprocess_text, line 125: the words that are kept
RECURSIVE KeptWords(_)
KeptWords(words) ==
    IF words = <<>> THEN <<>>
    ELSE LET word == Head(words)
         IN  (IF word # "" /\ word \notin stopwords /\ Len(word) > 2
              THEN <<word>> ELSE <<>>) \o KeptWords(Tail(words))

preprocess_text(text) == KeptWords(Split(SubNonWord(Lower(text))))

\* Counter(doc_words).get(word, 0)
Count(words, word) == Cardinality({i \in DOMAIN words : words[i] = word})

\* what a call yields: a value, or an exception
Returned(v) == [value |-> v]
Raised(e) == [raised |-> e]
IsRaised(r) == "raised" \in DOMAIN r

\* A relevance score num/den, den > 0 (the code computes it in floating
\* point; the model keeps the exact quotient).
Score(num, den) == [num |-> num, den |-> den]
ScoreLess(a, b) == a.num * b.den < b.num * a.den
ScoreEq(a, b) == a.num * b.den = b.num * a.den

-----------------------------------------------------------------------------
(* uom_ai_chatbot.py : UniversityKnowledgeBase, scoring and search *)

\* calculate_tf_idf, lines 141-144: the sum over the query words of the
\* word's count in the document (each term is that count / doc_word_count)
RECURSIVE TfSum(_, _)
TfSum(query_words, doc_words) ==
    IF query_words = <<>> THEN 0
    ELSE Count(doc_words, Head(query_words)) + TfSum(Tail(query_words), doc_words)

\* Matched that counts each distinct query word once
MatchedDistinct(query_words, doc_words) ==
    Cardinality(Range(query_words) \cap Range(doc_words))

\* calculate_tf_idf, line 147: len([w for w in query_words if w in doc_words])
Matched(query_words, doc_words) ==
    Cardinality({i \in DOMAIN query_words : query_words[i] \in Range(doc_words)})

calculate_tf_idf(query_words, document) ==
    LET doc_words == preprocess_text(document)
        doc_word_count == Len(doc_words)
    IN  IF doc_word_count = 0 THEN Returned(Score(0, 1))
        ELSE IF Len(query_words) = 0 THEN Raised("ZeroDivisionError")
        ELSE Returned(Score(TfSum(query_words, doc_words) * Matched(query_words, doc_words),
                            doc_word_count * Len(query_words)))

\* create_snippet, lines 182-191: the loop over the sentences
RECURSIVE BestSentence(_, _, _, _)
BestSentence(sentences, query_words, best_sentence, best_score) ==
    IF sentences = <<>> THEN best_sentence
    ELSE LET sentence == Head(sentences)
             score == Cardinality(Range(query_words) \cap Range(preprocess_text(sentence)))
         IN  IF score > best_score
             THEN BestSentence(Tail(sentences), query_words, StripSpace(sentence), score)
             ELSE BestSentence(Tail(sentences), query_words, best_sentence, best_score)

create_snippet(content, query_words, snippet_length) ==
    LET found == BestSentence(SplitOn(content, "."), query_words, "", 0)
        best_sentence == IF Len(found) > snippet_length
                         THEN Prefix(found, snippet_length) \o "..."
                         ELSE found
    IN  IF best_sentence # "" THEN best_sentence
        ELSE Prefix(content, snippet_length) \o "..."

\* the default of create_snippet's snippet_length
SnippetLength == 200

SearchResult(page, relevance, snippet) ==
    [content |-> page.content, title |-> page.title, url |-> page.url,
     category |-> page.content_type, relevance_score |-> relevance,
     snippet |-> snippet]

\* the loop of semantic_search with 'if relevance >= 0' in line 160
RECURSIVE ScoredPagesNotBelowZero(_, _, _)
ScoredPagesNotBelowZero(pages, query_words, i) ==
    IF i > Len(pages) THEN <<>>
    ELSE LET relevance == calculate_tf_idf(query_words, pages[i].content).value
         IN  (IF relevance.num >= 0
              THEN <<SearchResult(pages[i], relevance,
                        create_snippet(pages[i].content, query_words, SnippetLength))>>
              ELSE <<>>) \o ScoredPagesNotBelowZero(pages, query_words, i + 1)

\* semantic_search, lines 157-172: the loop over the pages, from page i on
RECURSIVE ScoredPages(_, _, _)
ScoredPages(pages, query_words, i) ==
    IF i > Len(pages) THEN <<>>
    ELSE LET relevance == calculate_tf_idf(query_words, pages[i].content).value
         IN  (IF relevance.num > 0
              THEN <<SearchResult(pages[i], relevance,
                        create_snippet(pages[i].content, query_words, SnippetLength))>>
              ELSE <<>>) \o ScoredPages(pages, query_words, i + 1)

\* InsertByRelevance that puts a result before the results of equal score
RECURSIVE InsertBeforeEqual(_, _)
InsertBeforeEqual(sorted, result) ==
    IF sorted # <<>> /\ ScoreLess(result.relevance_score, Head(sorted).relevance_score)
    THEN <<Head(sorted)>> \o InsertBeforeEqual(Tail(sorted), result)
    ELSE <<result>> \o sorted

\* list.sort(key, reverse=True) is stable: a result goes behind every result
\* whose score is not lower
RECURSIVE InsertByRelevance(_, _)
InsertByRelevance(sorted, result) ==
    IF sorted # <<>> /\ ~ScoreLess(Head(sorted).relevance_score, result.relevance_score)
    THEN <<Head(sorted)>> \o InsertByRelevance(Tail(sorted), result)
    ELSE <<result>> \o sorted

\* results.sort(key=lambda x: x.relevance_score, reverse=True)
RECURSIVE SortByRelevance(_, _)
SortByRelevance(sorted, results) ==
    IF results = <<>> THEN sorted
    ELSE SortByRelevance(InsertByRelevance(sorted, Head(results)), Tail(results))

\* semantic_search of a knowledge base k; limit >= 0
semantic_search(k, query, limit) ==
    LET query_words == preprocess_text(query)
    IN  IF \E i \in DOMAIN k.pages :
              IsRaised(calculate_tf_idf(query_words, k.pages[i].content))
        THEN Raised("ZeroDivisionError")
        ELSE Returned(Prefix(SortByRelevance(<<>>, ScoredPages(k.pages, query_words, 1)),
                             limit))

-----------------------------------------------------------------------------
(* uom_ai_chatbot.py : UniversityKnowledgeBase, loading and lookups *)

\* A dict, in insertion order: a sequence of <<key, value>> pairs.
DictKeys(d) == {d[i][1] : i \in DOMAIN d}
DictGet(d, key) == d[CHOOSE i \in DOMAIN d : d[i][1] = key][2]

\* d[key] = value: a new key goes to the end, a known key keeps its place
DictSet(d, key, value) ==
    IF key \in DictKeys(d)
    THEN [i \in DOMAIN d |-> IF d[i][1] = key THEN <<key, value>> ELSE d[i]]
    ELSE Append(d, <<key, value>>)

\* build_indexes: one of its two loops, over the records from record i on
RECURSIVE IndexByName(_, _, _)
IndexByName(index, records, i) ==
    IF i > Len(records) THEN index
    ELSE LET name == Lower(records[i].name)
         IN  IndexByName(IF name # "" THEN DictSet(index, name, records[i]) ELSE index,
                         records, i + 1)

\* The store: exists tells whether university_knowledge.db exists; when it
\* does, the store holds the rows of its four tables.
Absent == [exists |-> FALSE]

Store(pages, faculty, departments, notifications) ==
    [exists |-> TRUE, pages |-> pages, faculty |-> faculty,
     departments |-> departments, notifications |-> notifications]

\* load_knowledge_base, line 63: the exception and its message
StoreAbsentError ==
    "FileNotFoundError: Knowledge base not found at "
        \o "university_data/university_knowledge.db. Please run data_scraper.py first."

\* a constructor whose load_knowledge_base does not test db_path.exists()
LoadWithoutCheck(db) ==
    LET Rows(table) == IF db.exists THEN db[table] ELSE <<>>
    IN  Returned([pages |-> Rows("pages"),
                  faculty |-> Rows("faculty"),
                  departments |-> Rows("departments"),
                  notifications |-> Rows("notifications"),
                  faculty_index |-> IndexByName(<<>>, Rows("faculty"), 1),
                  department_index |-> IndexByName(<<>>, Rows("departments"), 1)])

\* UniversityKnowledgeBase.__init__: load_knowledge_base, then build_indexes
UniversityKnowledgeBase(db) ==
    IF ~db.exists THEN Raised(StoreAbsentError)
    ELSE Returned([pages |-> db.pages,
                   faculty |-> db.faculty,
                   departments |-> db.departments,
                   notifications |-> db.notifications,
                   faculty_index |-> IndexByName(<<>>, db.faculty, 1),
                   department_index |-> IndexByName(<<>>, db.departments, 1)])

\* any(part in full_name for part in name_lower.split())
AnyPartIn(name_lower, full_name) ==
    \E part \in Range(Split(name_lower)) : Contains(full_name, part)

\* find_faculty_by_name and get_department_info: the lookup in an index;
\* <<record>> when a record is found, <<>> for None
Lookup(index, name) ==
    LET name_lower == Lower(name)
        hits == {i \in DOMAIN index :
                    Contains(index[i][1], name_lower) \/ AnyPartIn(name_lower, index[i][1])}
    IN  IF name_lower \in DictKeys(index) THEN <<DictGet(index, name_lower)>>
        ELSE IF hits # {} THEN <<index[CHOOSE i \in hits : \A j \in hits : i <= j][2]>>
        ELSE <<>>

find_faculty_by_name(k, name) == Lookup(k.faculty_index, name)

get_department_info(k, dept_name) == Lookup(k.department_index, dept_name)

\* the characters in code order, for the comparison of strings
CodeOrder ==
    <<"\n", " ", "!", "#", "*", ",", "-", ".", "/",
      "0", "1", "2", "3", "4", "5", "6", "7", "8", "9", ":", "?",
      "A","B","C","D","E","F","G","H","I","J","K","L","M",
      "N","O","P","Q","R","S","T","U","V","W","X","Y","Z", "_",
      "a","b","c","d","e","f","g","h","i","j","k","l","m",
      "n","o","p","q","r","s","t","u","v","w","x","y","z">>

Code(c) == CHOOSE i \in DOMAIN CodeOrder : CodeOrder[i] = c

\* a < b for strings
RECURSIVE StrLess(_, _)
StrLess(a, b) ==
    IF b = "" THEN FALSE
    ELSE IF a = "" THEN TRUE
    ELSE IF Ch(a, 1) = Ch(b, 1) THEN StrLess(Tail(a), Tail(b))
    ELSE Code(Ch(a, 1)) < Code(Ch(b, 1))

\* sorted(..., key=date, reverse=True) is stable: a notification goes behind
\* every notification whose date is not lower
RECURSIVE InsertByDate(_, _)
InsertByDate(sorted, n) ==
    IF sorted # <<>> /\ ~StrLess(Head(sorted).date, n.date)
    THEN <<Head(sorted)>> \o InsertByDate(Tail(sorted), n)
    ELSE <<n>> \o sorted

RECURSIVE SortByDate(_, _)
SortByDate(sorted, notifications) ==
    IF notifications = <<>> THEN sorted
    ELSE SortByDate(InsertByDate(sorted, Head(notifications)), Tail(notifications))

get_recent_notifications(k, limit) == Prefix(SortByDate(<<>>, k.notifications), limit)

-----------------------------------------------------------------------------
(* uom_ai_chatbot.py : UniversityAIChatbot, intent and entities *)

\* self.intent_patterns, in the order of the dict
intent_patterns ==
    << <<"faculty_info",  <<"faculty", "professor", "teacher", "dr.", "dr ", "staff">> >>,
       <<"admissions",    <<"admission", "apply", "application", "entry", "requirement">> >>,
       <<"departments",   <<"department", "dept", "school", "faculty of">> >>,
       <<"notifications", <<"notification", "news", "announcement", "notice", "update">> >>,
       <<"academics",     <<"course", "program", "degree", "semester", "exam", "result">> >>,
       <<"research",      <<"research", "publication", "journal", "paper", "study">> >>,
       <<"contact",       <<"contact", "phone", "email", "address", "location">> >>,
       <<"general",       <<"about", "history", "information", "what is", "tell me">> >> >>

\* detect_intent, line 271: sum(1 for keyword in keywords if keyword in query_lower)
IntentScore(keywords, query_lower) ==
    Cardinality({i \in DOMAIN keywords : Contains(query_lower, keywords[i])})

\* detect_intent, lines 269-273: the score of each intent, in dict order
\* (an intent of score 0 is not entered in intent_scores)
IntentScores(query_lower) ==
    [i \in DOMAIN intent_patterns |-> IntentScore(intent_patterns[i][2], query_lower)]

\* FirstMax in which a later intent of equal score replaces the earlier one
RECURSIVE LastMax(_, _, _)
LastMax(scores, i, best) ==
    IF i > Len(scores) THEN best
    ELSE IF scores[i] > 0 /\ (best = 0 \/ scores[i] >= scores[best])
         THEN LastMax(scores, i + 1, i)
         ELSE LastMax(scores, i + 1, best)

\* detect_intent, line 276: max(intent_scores, key=intent_scores.get) yields
\* the first intent of the highest score (best = 0: none so far)
RECURSIVE FirstMax(_, _, _)
FirstMax(scores, i, best) ==
    IF i > Len(scores) THEN best
    ELSE IF scores[i] > 0 /\ (best = 0 \/ scores[i] > scores[best])
         THEN FirstMax(scores, i + 1, i)
         ELSE FirstMax(scores, i + 1, best)

detect_intent(query) ==
    LET best == FirstMax(IntentScores(Lower(query)), 1, 0)
    IN  IF best # 0 THEN intent_patterns[best][1] ELSE "general"

\* [a-z\s] under re.IGNORECASE
IsNameCh(c) == c \in Letters \/ IsSpaceCh(c)

\* the index of the last character of the run of [a-z\s] that starts at j
RECURSIVE RunEnd(_, _)
RunEnd(s, j) == IF j <= Len(s) /\ IsNameCh(Ch(s, j)) THEN RunEnd(s, j + 1) ELSE j - 1

\* the index of the last character of the run of \s that starts at j
RECURSIVE SpaceEnd(_, _)
SpaceEnd(s, j) == IF j <= Len(s) /\ IsSpaceCh(Ch(s, j)) THEN SpaceEnd(s, j + 1) ELSE j - 1

\* \s+[a-z\s]+ matched at j: the index its match ends at, 0 for no match
TailMatch(s, j) ==
    IF j <= Len(s) /\ IsSpaceCh(Ch(s, j)) /\ RunEnd(s, j) >= j + 1
    THEN RunEnd(s, j) ELSE 0

\* a literal of the pattern matched at i, ignoring case
LitAt(s, i, lit) ==
    /\ i + Len(lit) - 1 <= Len(s)
    /\ Lower(SubSeq(s, i, i + Len(lit) - 1)) = lit

\* lit\.?\s+[a-z\s]+ (dot) or lit\s+[a-z\s]+ matched at i: the index the
\* match ends at, 0 for no match
MatchEndAt(s, i, lit, dot) ==
    IF ~LitAt(s, i, lit) THEN 0
    ELSE LET j == i + Len(lit)
         IN  IF dot /\ j <= Len(s) /\ Ch(s, j) = "."
             THEN TailMatch(s, j + 1)
             ELSE TailMatch(s, j)

\* re.search: the leftmost match, as <<start, end>>; <<>> for None
Search(s, lit, dot) ==
    LET starts == {i \in 1..Len(s) : MatchEndAt(s, i, lit, dot) # 0}
    IN  IF starts = {} THEN <<>>
        ELSE LET i == CHOOSE i \in starts : \A j \in starts : i <= j
             IN  <<i, MatchEndAt(s, i, lit, dot)>>

\* extract_entities, lines 285-289
name_patterns == << <<"dr", TRUE>>, <<"prof", TRUE>>, <<"professor", FALSE>> >>

\* extract_entities, line 298
dept_keywords == <<"department of", "dept of", "faculty of">>

\* a loop over name_patterns in which the match that starts earliest in
\* the query wins, whatever the place of its pattern in the list
PersonLeftmost(query, p) ==
    LET matches == {Search(query, name_patterns[i][1], name_patterns[i][2]) :
                       i \in DOMAIN name_patterns} \ {<<>>}
    IN  IF matches = {} THEN <<>>
        ELSE LET match == CHOOSE m \in matches : \A n \in matches : m[1] <= n[1]
             IN  <<StripSpace(SubSeq(query, match[1], match[2]))>>

\* extract_entities, lines 291-295: the loop over name_patterns from pattern p on
RECURSIVE PersonFrom(_, _)
PersonFrom(query, p) ==
    IF p > Len(name_patterns) THEN <<>>
    ELSE LET match == Search(query, name_patterns[p][1], name_patterns[p][2])
         IN  IF match # <<>>
             THEN <<StripSpace(SubSeq(query, match[1], match[2]))>>
             ELSE PersonFrom(query, p + 1)

\* extract_entities, lines 299-304: the loop over dept_keywords from keyword p on.
\* Group 1 starts behind the white space \s+ takes, which leaves it one
\* character when the whole run is white space.
RECURSIVE DepartmentFrom(_, _)
DepartmentFrom(query, p) ==
    IF p > Len(dept_keywords) THEN <<>>
    ELSE LET match == Search(query, dept_keywords[p], FALSE)
         IN  IF match # <<>>
             THEN LET j == match[1] + Len(dept_keywords[p])
                      spaces == SpaceEnd(query, j)
                      start == IF spaces = match[2] THEN match[2] ELSE spaces + 1
                  IN  <<StripSpace(SubSeq(query, start, match[2]))>>
             ELSE DepartmentFrom(query, p + 1)

\* the entities dict: each key holds <<value>>, or <<>> when absent
extract_entities(query) ==
    [person |-> PersonFrom(query, 1), department |-> DepartmentFrom(query, 1)]

-----------------------------------------------------------------------------
(* uom_ai_chatbot.py : UniversityAIChatbot, the responses *)

FacultyFallback ==
    "I couldn't find specific faculty information. Could you provide more details or check the faculty directory on the university website?"
AdmissionsFallback ==
    "For detailed admission information, please visit the university's official website or contact the admissions office directly."
DepartmentFallback ==
    "I couldn't find specific department information. Please provide more details about which department you're interested in."
NotificationsFallback ==
    "Please check the university's official website for the latest notifications and announcements."
GeneralFallback ==
    "I'm sorry, I couldn't find specific information about that. Could you please rephrase your question or be more specific?"

\* response += f"**{result.title}**\n{result.snippet}\n\n", for each result
RECURSIVE TitledSnippets(_)
TitledSnippets(results) ==
    IF results = <<>> THEN ""
    ELSE "**" \o Head(results).title \o "**\n" \o Head(results).snippet \o "\n\n"
            \o TitledSnippets(Tail(results))

\* response += f"{result.snippet}\n\n", for each result
RECURSIVE Snippets(_)
Snippets(results) ==
    IF results = <<>> THEN ""
    ELSE Head(results).snippet \o "\n\n" \o Snippets(Tail(results))

\* [r for r in search_results if r.category == category]
RECURSIVE OfCategory(_, _)
OfCategory(results, category) ==
    IF results = <<>> THEN <<>>
    ELSE (IF Head(results).category = category THEN <<Head(results)>> ELSE <<>>)
            \o OfCategory(Tail(results), category)

\* f"{label}{value}\n" when the field is truthy
Line(label, value) == IF value # "" THEN label \o value \o "\n" ELSE ""

FacultyCard(faculty_info) ==
    "**" \o faculty_info.name \o "**\n"
    \o Line("Position: ", faculty_info.designation)
    \o Line("Department: ", faculty_info.department)
    \o Line("Email: ", faculty_info.email)
    \o Line("Research Interests: ", faculty_info.research_interests)
    \o (IF faculty_info.bio # ""
        THEN "\nBio: " \o Prefix(faculty_info.bio, 200) \o "..." ELSE "")

handle_faculty_query(k, query, entities) ==
    LET found == IF entities.person # <<>>
                 THEN find_faculty_by_name(k, entities.person[1]) ELSE <<>>
        search_results == semantic_search(k, query, 3)
    IN  IF found # <<>> THEN Returned(FacultyCard(found[1]))
        ELSE IF IsRaised(search_results) THEN search_results
        ELSE LET faculty_results == OfCategory(search_results.value, "faculty")
             IN  IF faculty_results # <<>>
                 THEN Returned("Here's what I found about faculty:\n\n"
                               \o TitledSnippets(Prefix(faculty_results, 2)))
                 ELSE Returned(FacultyFallback)

\* [r for r in search_results
\*    if r.category == 'admissions' or 'admission' in r.title.lower()]
RECURSIVE AdmissionResults(_)
AdmissionResults(results) ==
    IF results = <<>> THEN <<>>
    ELSE (IF Head(results).category = "admissions"
             \/ Contains(Lower(Head(results).title), "admission")
          THEN <<Head(results)>> ELSE <<>>) \o AdmissionResults(Tail(results))

handle_admissions_query(k, query) ==
    LET search_results == semantic_search(k, query, 5)
        general_results == semantic_search(k, query, 2)
    IN  IF IsRaised(search_results) THEN search_results
        ELSE IF AdmissionResults(search_results.value) # <<>>
        THEN Returned("**Admissions Information:**\n\n"
                \o TitledSnippets(Prefix(AdmissionResults(search_results.value), 3))
                \o "\nFor the most current admission requirements and deadlines, please visit the university's official admissions page.")
        ELSE IF general_results.value # <<>>
        THEN Returned("Here's what I found about admissions:\n\n"
                      \o Snippets(general_results.value))
        ELSE Returned(AdmissionsFallback)

DepartmentCard(dept_info) ==
    "**" \o dept_info.name \o "**\n"
    \o Line("Description: ", dept_info.description)
    \o Line("Department Head: ", dept_info.head)
    \o (IF dept_info.faculty_count # 0
        THEN "Faculty Members: " \o ToString(dept_info.faculty_count) \o "\n" ELSE "")
    \o Line("Programs: ", dept_info.programs)

handle_department_query(k, query, entities) ==
    LET found == IF entities.department # <<>>
                 THEN get_department_info(k, entities.department[1]) ELSE <<>>
        search_results == semantic_search(k, query, 3)
    IN  IF found # <<>> THEN Returned(DepartmentCard(found[1]))
        ELSE IF IsRaised(search_results) THEN search_results
        ELSE LET dept_results == OfCategory(search_results.value, "department")
             IN  IF dept_results # <<>>
                 THEN Returned("Here's information about departments:\n\n"
                               \o TitledSnippets(dept_results))
                 ELSE Returned(DepartmentFallback)

\* handle_notifications_query, lines 414-419 (the bullet is written "-")
RECURSIVE NotificationLines(_)
NotificationLines(notifications) ==
    IF notifications = <<>> THEN ""
    ELSE LET n == Head(notifications)
         IN  "- **" \o n.title \o "**\n"
             \o (IF n.date # "" THEN "  Date: " \o n.date \o "\n" ELSE "")
             \o (IF n.content # "" THEN "  " \o Prefix(n.content, 100) \o "...\n\n" ELSE "")
             \o NotificationLines(Tail(notifications))

handle_notifications_query(k, query) ==
    LET recent_notifications == get_recent_notifications(k, 5)
        search_results == semantic_search(k, query, 3)
    IN  IF recent_notifications # <<>>
        THEN Returned("**Recent University Notifications:**\n\n"
                      \o NotificationLines(recent_notifications))
        ELSE IF IsRaised(search_results) THEN search_results
        ELSE LET notification_results == OfCategory(search_results.value, "notifications")
             IN  IF notification_results # <<>>
                 THEN Returned("**University Updates:**\n\n"
                               \o TitledSnippets(notification_results))
                 ELSE Returned(NotificationsFallback)

\* [r for r in search_results if r.relevance_score > 0.1]
RECURSIVE HighRelevance(_)
HighRelevance(results) ==
    IF results = <<>> THEN <<>>
    ELSE (IF ScoreLess(Score(1, 10), Head(results).relevance_score)
          THEN <<Head(results)>> ELSE <<>>) \o HighRelevance(Tail(results))

\* [r for r in search_results if 0.05 < r.relevance_score <= 0.1]
RECURSIVE MediumRelevance(_)
MediumRelevance(results) ==
    IF results = <<>> THEN <<>>
    ELSE (IF /\ ScoreLess(Score(1, 20), Head(results).relevance_score)
             /\ ~ScoreLess(Score(1, 10), Head(results).relevance_score)
          THEN <<Head(results)>> ELSE <<>>) \o MediumRelevance(Tail(results))

\* handle_general_query, line 458 (the light-bulb sign is left out)
Suggestion ==
    "\n*You can ask me about faculty members, departments, admissions, research, or recent notifications.*"

\* handle_general_query without the test of line 438
handle_general_query_unguarded(k, query) ==
    LET search_results == semantic_search(k, query, 5)
    IN  IF IsRaised(search_results) THEN search_results
        ELSE LET high_relevance == HighRelevance(search_results.value)
             IN  Returned(
                    (IF high_relevance # <<>>
                     THEN "Here's what I found:\n\n"
                          \o TitledSnippets(Prefix(high_relevance, 2)) ELSE "")
                    \o Suggestion)

handle_general_query(k, query) ==
    LET search_results == semantic_search(k, query, 5)
    IN  IF IsRaised(search_results) THEN search_results
        ELSE IF search_results.value = <<>> THEN Returned(GeneralFallback)
        ELSE LET high_relevance == HighRelevance(search_results.value)
                 medium_relevance == MediumRelevance(search_results.value)
             IN  Returned(
                    (IF high_relevance # <<>>
                     THEN "Here's what I found:\n\n"
                          \o TitledSnippets(Prefix(high_relevance, 2)) ELSE "")
                    \o (IF medium_relevance # <<>> /\ Len(high_relevance) < 2
                        THEN "Additional information:\n\n"
                             \o TitledSnippets(Prefix(medium_relevance, 1)) ELSE "")
                    \o Suggestion)

generate_response(k, query) ==
    LET intent == detect_intent(query)
        entities == extract_entities(query)
    IN  CASE intent = "faculty_info"  -> handle_faculty_query(k, query, entities)
          [] intent = "admissions"    -> handle_admissions_query(k, query)
          [] intent = "departments"   -> handle_department_query(k, query, entities)
          [] intent = "notifications" -> handle_notifications_query(k, query)
          [] OTHER                    -> handle_general_query(k, query)

-----------------------------------------------------------------------------
(* The stores the knowledge base is loaded from *)

Page(url, title, content, content_type) ==
    [url |-> url, title |-> title, content |-> content, content_type |-> content_type]

PageCS ==
    Page("https://uom.edu.pk/cs", "CS Department",
         "Computer science department faculty.", "department")
PageFaculty ==
    Page("https://uom.edu.pk/faculty", "Faculty", "computer science", "faculty")
PageTie ==
    Page("https://uom.edu.pk/science", "Science", "Science: computer", "faculty")
PageAdmission ==
    Page("https://uom.edu.pk/admissions", "Admission Notice",
         "The admission is on. Apply to physics, physics!", "admissions")
PageStop ==
    Page("https://uom.edu.pk/misc", "Misc", "Of it.", "general")
PageLab ==
    Page("https://uom.edu.pk/lab", "Lab", "Faculty computer science", "general")
PageNews ==
    Page("https://uom.edu.pk/news", "News", "Computer science faculty news",
         "notifications")

SearchPages == {PageCS, PageFaculty, PageTie, PageAdmission, PageStop}

\* the most pages a store of the search specification holds
MaxKbPages == 3

\* the rows of the pages table: url is its key
PageTables ==
    UNION { {t \in [1..n -> SearchPages] : \A i, j \in 1..n : t[i] = t[j] => i = j} :
            n \in 0..MaxKbPages }

SearchDatabases == {Store(pages, <<>>, <<>>, <<>>) : pages \in PageTables}

\* the documents calculate_tf_idf is called with: the page contents, "" and
\* a text of query words only
Documents(k) ==
    {k.pages[i].content : i \in DOMAIN k.pages} \cup {"", "computer physics"}

Words == {"computer", "physics"}

\* the longest list of query words calculate_tf_idf is called with
MaxQueryWords == 3

WordLists == UNION { [1..n -> Words] : n \in 0..MaxQueryWords }

SearchQueries ==
    {"", "the of", "computer science", "Computer, computer SCIENCE!",
     "computer science department", "physics", "is science on", "admission physics"}

\* the largest limit semantic_search is called with
MaxLimit == 3

-----------------------------------------------------------------------------
(* The knowledge base on its own: specification SpecKB *)

NoCrawl ==
    /\ site = <<>>
    /\ queue = <<>>
    /\ visited_urls = {}
    /\ pdf_links = <<>>
    /\ files = <<>>
    /\ fetched = <<>>
    /\ enqueued = <<>>
    /\ failed = {}
    /\ pc = "off"
    /\ previous = <<>>

InitKB ==
    /\ NoCrawl
    /\ NoServer
    /\ kb \in {UniversityKnowledgeBase(db).value : db \in SearchDatabases}
    /\ conversation_history = <<>>
    /\ clock = 0
    /\ call = Idle
    /\ ret = [none |-> TRUE]

CalculateTfIdf ==
    /\ call = Idle
    /\ \E query_words \in WordLists, document \in Documents(kb) :
         /\ call' = [op |-> "calculate_tf_idf", args |-> <<query_words, document>>]
         /\ ret' = calculate_tf_idf(query_words, document)
    /\ UNCHANGED <<kb, conversation_history, clock>>
    /\ UNCHANGED crawlVars
    /\ UNCHANGED serverVars

SemanticSearch ==
    /\ call = Idle
    /\ \E query \in SearchQueries, limit \in 0..MaxLimit :
         /\ call' = [op |-> "semantic_search", args |-> <<query, limit>>]
         /\ ret' = semantic_search(kb, query, limit)
    /\ UNCHANGED <<kb, conversation_history, clock>>
    /\ UNCHANGED crawlVars
    /\ UNCHANGED serverVars

\* a snippet length below the default, at which sentences get cut
ShortSnippet == 8

SnippetLengths == {ShortSnippet, SnippetLength}

\* the texts create_snippet is called with: the documents and a text whose
\* second and fourth sentence share the most words with a query
SnippetDocuments(k) ==
    Documents(k) \cup {"Physics one. Computer physics two.  Lab. Physics computer"}

\* the query word lists create_snippet is called with
SnippetWordLists ==
    {<<>>, <<"computer">>, <<"physics", "computer">>, <<"science", "computer", "science">>}

CreateSnippet ==
    /\ call = Idle
    /\ \E content \in SnippetDocuments(kb), query_words \in SnippetWordLists,
          snippet_length \in SnippetLengths :
         /\ call' = [op |-> "create_snippet",
                     args |-> <<content, query_words, snippet_length>>]
         /\ ret' = Returned(create_snippet(content, query_words, snippet_length))
    /\ UNCHANGED <<kb, conversation_history, clock>>
    /\ UNCHANGED crawlVars
    /\ UNCHANGED serverVars

\* the caller takes the result
Return ==
    /\ call # Idle
    /\ call' = Idle
    /\ ret' = [none |-> TRUE]
    /\ UNCHANGED <<kb, conversation_history, clock>>
    /\ UNCHANGED crawlVars
    /\ UNCHANGED serverVars

NextKB ==
    \/ CalculateTfIdf
    \/ SemanticSearch
    \/ CreateSnippet
    \/ Return

SpecKB == InitKB /\ [][NextKB]_vars

-----------------------------------------------------------------------------
(* Properties of the knowledge base *)

\* the number of pairs of a query word and an equal document word: the sum
\* over the query words of the word's count in the document
PairCount(query_words, doc_words) ==
    Cardinality({p \in (DOMAIN query_words) \X (DOMAIN doc_words) :
                    query_words[p[1]] = doc_words[p[2]]})

\* the places of the query word list whose word occurs in the document
PresentPlaces(query_words, doc_words) ==
    {i \in DOMAIN query_words : \E j \in DOMAIN doc_words : query_words[i] = doc_words[j]}

\* the distinct query words that occur in the document
PresentWords(query_words, doc_words) ==
    {w \in Range(query_words) : \E j \in DOMAIN doc_words : w = doc_words[j]}

\* ret is the score (sum / n) * (hits / m)
IsScore(sum, n, hits, m) ==
    /\ ~IsRaised(ret)
    /\ ret.value.num * (n * m) = (sum * hits) * ret.value.den

PageScore(query, i) ==
    calculate_tf_idf(preprocess_text(query), kb.pages[i].content).value

\* C12: appending one more occurrence of one of the query tokens to the
\* document never decreases the score of the document for the query tokens.
C12_AppendingNeverDecreases ==
    call.op = "calculate_tf_idf" /\ ~IsRaised(ret) =>
        \A w \in Range(call.args[1]) :
            ~ScoreLess(calculate_tf_idf(call.args[1], call.args[2] \o " " \o w).value,
                       ret.value)

\* the pages of positive score
Positive(query) == {i \in DOMAIN kb.pages : PageScore(query, i).num > 0}

\* page i is ranked before page j: a higher score, or the same score and
\* loaded earlier
RankedBefore(query, i, j) ==
    \/ ScoreLess(PageScore(query, j), PageScore(query, i))
    \/ ScoreEq(PageScore(query, i), PageScore(query, j)) /\ i < j

Min(a, b) == IF a < b THEN a ELSE b

\* C9: search returns only pages of score > 0, by descending score with
\* pages of equal score in load order, and returns the first `limit` of them.
C9_SearchRanking ==
    call.op = "semantic_search" /\ ~IsRaised(ret) =>
        LET query == call.args[1]
            limit == call.args[2]
            results == ret.value
        IN  /\ Len(results) = Min(limit, Cardinality(Positive(query)))
            /\ \A k \in DOMAIN results :
                 \E i \in Positive(query) :
                    /\ results[k].url = kb.pages[i].url
                    /\ results[k].relevance_score = PageScore(query, i)
                    /\ Cardinality({j \in Positive(query) : RankedBefore(query, j, i)})
                          = k - 1

\* a search has returned `limit` results, two of them of equal score, and
\* left out a page of positive score
C9_Witness ==
    /\ call.op = "semantic_search"
    /\ ~IsRaised(ret)
    /\ Len(ret.value) = call.args[2]
    /\ Cardinality(Positive(call.args[1])) > call.args[2]
    /\ \E k \in DOMAIN ret.value : \E l \in DOMAIN ret.value :
          k < l /\ ScoreEq(ret.value[k].relevance_score, ret.value[l].relevance_score)

\* the pages whose words include a word of the query
Sharing(query) ==
    {i \in DOMAIN kb.pages :
        \E w \in Range(preprocess_text(query)) :
            w \in Range(preprocess_text(kb.pages[i].content))}

\* C28: for a non-empty list of query words the score is not negative and
\* is above zero exactly when a query word is among the words of the
\* document; a search with such a query returns pages that share a word
\* with the query only, and all of them up to the limit.
C28_PositiveScoreIffSharedWord ==
    /\ call.op = "calculate_tf_idf" /\ call.args[1] # <<>> =>
          /\ ~IsRaised(ret)
          /\ ret.value.num >= 0
          /\ ret.value.den > 0
          /\ ret.value.num > 0 <=>
                \E w \in Range(call.args[1]) : w \in Range(preprocess_text(call.args[2]))
    /\ call.op = "semantic_search" /\ preprocess_text(call.args[1]) # <<>> =>
          /\ ~IsRaised(ret)
          /\ \A k \in DOMAIN ret.value :
                \E i \in Sharing(call.args[1]) : ret.value[k].url = kb.pages[i].url
          /\ \A k, l \in DOMAIN ret.value : ret.value[k].url = ret.value[l].url => k = l
          /\ Len(ret.value) = Min(call.args[2], Cardinality(Sharing(call.args[1])))

\* a search over three pages has returned the two pages that share a word
\* with the query, below the limit, and left out a page with words of its own
C28_Witness ==
    /\ call.op = "semantic_search"
    /\ ~IsRaised(ret)
    /\ Len(kb.pages) = 3
    /\ Len(ret.value) = 2
    /\ call.args[2] = 3
    /\ \E i \in DOMAIN kb.pages :
          /\ i \notin Sharing(call.args[1])
          /\ preprocess_text(kb.pages[i].content) # <<>>

\* the number of distinct query words among the words of the sentence
Overlap(sentence, query_words) ==
    Cardinality({w \in Range(query_words) : w \in Range(preprocess_text(sentence))})

\* the text cut to maxLen characters, with an ellipsis if it was longer
Cut(text, maxLen) ==
    IF Len(text) > maxLen THEN SubSeq(text, 1, maxLen) \o "..." ELSE text

\* the leading maxLen characters of the text
Leading(text, maxLen) == IF Len(text) > maxLen THEN SubSeq(text, 1, maxLen) ELSE text

\* C24: create_snippet returns the first of the sentences (the text split at
\* '.', a sentence taken without its surrounding blanks) whose overlap with
\* the query words is the largest, cut to maxLen characters with an ellipsis
\* if it is longer; if no sentence has an overlap above zero it returns the
\* leading maxLen characters of the text.
C24_SnippetIsBestSentenceOrLead ==
    call.op = "create_snippet" =>
        LET content == call.args[1]
            query_words == call.args[2]
            maxLen == call.args[3]
            sentences == SplitOn(content, ".")
            best == {i \in DOMAIN sentences :
                        /\ Overlap(sentences[i], query_words) > 0
                        /\ \A j \in DOMAIN sentences :
                              /\ Overlap(sentences[j], query_words)
                                    <= Overlap(sentences[i], query_words)
                              /\ j < i => Overlap(sentences[j], query_words)
                                            < Overlap(sentences[i], query_words)}
        IN  IF best # {}
            THEN \A i \in best : ret.value = Cut(StripSpace(sentences[i]), maxLen)
            ELSE ret.value = Leading(content, maxLen)

-----------------------------------------------------------------------------
(* Intent and entities on their own: specification SpecIntent *)

\* the pieces the queries are put together from
QueryFragments ==
    {"Tell me about ", "Dr. Ali Khan", "dr ", "faculty of ", "department",
     "Department of  physics", "dept of ", "admission", "apply", "news",
     "Professor X", "prof. y?", "exam result", " ", "xyz"}

\* the most pieces in a query
MaxFragments == 2

RECURSIVE Join(_)
Join(pieces) == IF pieces = <<>> THEN "" ELSE Head(pieces) \o Join(Tail(pieces))

Queries == {Join(pieces) : pieces \in UNION {[1..n -> QueryFragments] : n \in 0..MaxFragments}}

InitIntent ==
    /\ NoCrawl
    /\ NoServer
    /\ NoBot

DetectIntent ==
    /\ call = Idle
    /\ \E query \in Queries :
         /\ call' = [op |-> "detect_intent", args |-> <<query>>]
         /\ ret' = Returned(detect_intent(query))
    /\ UNCHANGED <<kb, conversation_history, clock>>
    /\ UNCHANGED crawlVars
    /\ UNCHANGED serverVars

ExtractEntities ==
    /\ call = Idle
    /\ \E query \in Queries :
         /\ call' = [op |-> "extract_entities", args |-> <<query>>]
         /\ ret' = Returned(extract_entities(query))
    /\ UNCHANGED <<kb, conversation_history, clock>>
    /\ UNCHANGED crawlVars
    /\ UNCHANGED serverVars

NextIntent ==
    \/ DetectIntent
    \/ ExtractEntities
    \/ Return

SpecIntent == InitIntent /\ [][NextIntent]_vars

-----------------------------------------------------------------------------
(* Properties of intent and entities *)

AliKhanQuery == "Tell me about Dr. Ali Khan"

\* C4: "Tell me about Dr. Ali Khan" is classified as faculty_info, and a
\* person entity is extracted from it.
C4_AliKhanIsFacultyQuery ==
    call.args = <<AliKhanQuery>> =>
        /\ call.op = "detect_intent" => ret.value = "faculty_info"
        /\ call.op = "extract_entities" => ret.value.person # <<>>

\* the categories in their fixed order
Categories ==
    <<"faculty_info", "admissions", "departments", "notifications",
      "academics", "research", "contact", "general">>

\* the keywords of a category
Keywords(category) ==
    Range(intent_patterns[CHOOSE i \in DOMAIN intent_patterns :
                              intent_patterns[i][1] = category][2])

\* the keywords of category number c that occur in the lowercased query
Hits(c, query) == Cardinality({k \in Keywords(Categories[c]) : Contains(Lower(query), k)})

\* C10: detect_intent returns the category with the most keyword hits, the
\* earliest in the fixed order among those that tie, and general when no
\* category has a hit.
C10_MostHitsEarliestWins ==
    call.op = "detect_intent" =>
        LET query == call.args[1]
        IN  IF \A c \in DOMAIN Categories : Hits(c, query) = 0
            THEN ret.value = "general"
            ELSE \E c \in DOMAIN Categories :
                    /\ ret.value = Categories[c]
                    /\ \A d \in DOMAIN Categories :
                          /\ Hits(d, query) <= Hits(c, query)
                          /\ d < c => Hits(d, query) < Hits(c, query)

\* an intent was detected for a query in which two categories tie for the
\* most hits
C10_Witness ==
    /\ call.op = "detect_intent"
    /\ \E c, d \in DOMAIN Categories :
          /\ c < d
          /\ ret.value = Categories[c]
          /\ Hits(c, call.args[1]) = Hits(d, call.args[1])
          /\ Hits(c, call.args[1]) > 0

\* the person patterns in the order they are tried: the literal, and
\* whether a dot may follow it
PersonOrder == << <<"dr", TRUE>>, <<"prof", TRUE>>, <<"professor", FALSE>> >>

\* the department keywords in the order they are tried
DepartmentOrder == <<"department of", "dept of", "faculty of">>

\* the leftmost match of the p-th person pattern, <<>> for none
PersonMatch(query, p) == Search(query, PersonOrder[p][1], PersonOrder[p][2])

\* the leftmost match of the p-th department keyword, <<>> for none
DepartmentMatch(query, p) == Search(query, DepartmentOrder[p], FALSE)

\* C25: extract_entities returns at most one person and at most one
\* department; of each type the first pattern in the order (dr, prof,
\* professor; department of, dept of, faculty of) that matches gives the
\* entity, whatever a later pattern would match and wherever; no entity is
\* returned for a type without a matching pattern.
C25_FirstMatchingPatternWins ==
    call.op = "extract_entities" =>
        LET query == call.args[1]
            persons == {p \in 1..3 : PersonMatch(query, p) # <<>>}
            departments == {p \in 1..3 : DepartmentMatch(query, p) # <<>>}
        IN  /\ Len(ret.value.person) <= 1
            /\ Len(ret.value.department) <= 1
            /\ persons = {} => ret.value.person = <<>>
            /\ departments = {} => ret.value.department = <<>>
            /\ \A p \in persons :
                  (\A o \in persons : p <= o) =>
                      ret.value.person =
                          <<StripSpace(SubSeq(query, PersonMatch(query, p)[1],
                                                     PersonMatch(query, p)[2]))>>
            /\ \A p \in departments :
                  (\A o \in departments : p <= o) =>
                      ret.value.department =
                          <<StripSpace(SubSeq(query,
                                DepartmentMatch(query, p)[1] + Len(DepartmentOrder[p]),
                                DepartmentMatch(query, p)[2]))>>

\* the entities of a query in which 'prof' matches before 'dr' does and
\* 'faculty of' or 'dept of' matches before 'department of' does
C25_Witness ==
    /\ call.op = "extract_entities"
    /\ \/ /\ PersonMatch(call.args[1], 1) # <<>>
          /\ PersonMatch(call.args[1], 2) # <<>>
          /\ PersonMatch(call.args[1], 2)[1] < PersonMatch(call.args[1], 1)[1]
          /\ ret.value.person = <<"Dr. Ali Khan">>
       \/ /\ DepartmentMatch(call.args[1], 1) # <<>>
          /\ \E p \in 2..3 :
                /\ DepartmentMatch(call.args[1], p) # <<>>
                /\ DepartmentMatch(call.args[1], p)[1] < DepartmentMatch(call.args[1], 1)[1]
          /\ ret.value.department = <<"physics">>

-----------------------------------------------------------------------------
(* The chatbot: specification SpecBot *)

Faculty(name, designation, department, email, research_interests, bio) ==
    [name |-> name, designation |-> designation, department |-> department,
     email |-> email, research_interests |-> research_interests, bio |-> bio]

Department(name, description, head, faculty_count, programs) ==
    [name |-> name, description |-> description, head |-> head,
     faculty_count |-> faculty_count, programs |-> programs]

Notification(title, date, content) ==
    [title |-> title, date |-> date, content |-> content]

AliKhan ==
    Faculty("Dr. Ali Khan", "Professor", "Physics", "ali@uom.edu.pk", "", "Teaches physics.")
Fakhruddin ==
    Faculty("Dr. Fakhruddin", "", "Computer Science", "", "networks", "")
Physics == Department("Physics", "Department of Physics", "Dr. Ali Khan", 12, "BS, MS")
English == Department("English", "", "", 0, "")
Holiday == Notification("Holiday", "2024-01-05", "The university is closed.")
Exams == Notification("Exams", "2024-01-10", "")

\* the stores the chatbot is built on
BotDatabases ==
    { Store(pages, faculty, tables[1], tables[2]) :
        pages \in {<<>>, <<PageStop>>, <<PageCS, PageFaculty, PageAdmission>>,
                   <<PageCS, PageLab, PageNews, PageFaculty>>},
        faculty \in {<<>>, <<AliKhan, Fakhruddin>>},
        tables \in {<<<<>>, <<>>>>, <<<<Physics, English>>, <<Holiday, Exams>>>>} }

ChatQueries ==
    {"Is it?", "Tell me about Dr. Ali Khan", "Who is Dr. Fakhruddin?",
     "How to apply for admission?", "department of physics",
     "Latest university news", "computer science", "faculty computer science"}

\* the most chat calls made in one run
MaxTurns == 2

InitBot ==
    /\ NoCrawl
    /\ NoServer
    /\ kb \in {UniversityKnowledgeBase(db).value : db \in BotDatabases}
    /\ conversation_history = <<>>
    /\ clock = 0
    /\ call = Idle
    /\ ret = [none |-> TRUE]

\* chat that greets on the first turn: it looks into conversation_history
ChatGreetingOnce ==
    /\ call = Idle
    /\ Len(SelectSeq(conversation_history, LAMBDA e : e.type = "user")) < MaxTurns
    /\ \E query \in ChatQueries :
         LET asked == Append(conversation_history,
                        [timestamp |-> clock + 1, query |-> query, type |-> "user"])
             answer == generate_response(kb, query)
             response == IF IsRaised(answer) \/ Len(asked) > 1 THEN answer
                         ELSE Returned("Hello! " \o answer.value)
         IN  /\ call' = [op |-> "chat", args |-> <<query>>]
             /\ ret' = response
             /\ IF IsRaised(response)
                THEN /\ conversation_history' = asked
                     /\ clock' = clock + 1
                ELSE /\ conversation_history' = Append(asked,
                            [timestamp |-> clock + 2, response |-> response.value,
                             type |-> "bot"])
                     /\ clock' = clock + 2
    /\ UNCHANGED kb
    /\ UNCHANGED crawlVars
    /\ UNCHANGED serverVars

\* chat(query): an exception of generate_response leaves through chat, after
\* the user entry was appended
Chat ==
    /\ call = Idle
    /\ Len(SelectSeq(conversation_history, LAMBDA e : e.type = "user")) < MaxTurns
    /\ \E query \in ChatQueries :
         LET asked == Append(conversation_history,
                        [timestamp |-> clock + 1, query |-> query, type |-> "user"])
             response == generate_response(kb, query)
         IN  /\ call' = [op |-> "chat", args |-> <<query>>]
             /\ ret' = response
             /\ IF IsRaised(response)
                THEN /\ conversation_history' = asked
                     /\ clock' = clock + 1
                ELSE /\ conversation_history' = Append(asked,
                            [timestamp |-> clock + 2, response |-> response.value,
                             type |-> "bot"])
                     /\ clock' = clock + 2
    /\ UNCHANGED kb
    /\ UNCHANGED crawlVars
    /\ UNCHANGED serverVars

NextBot ==
    \/ Chat
    \/ Return

SpecBot == InitBot /\ [][NextBot]_vars

-----------------------------------------------------------------------------
(* The lookups by name on their own: specification SpecLookup *)

\* the names the lookups are called with
LookupNames ==
    {"", "DR. ALI KHAN", "dr. fakhruddin", "Ali", "Dr. Hassan", "Khan Ali",
     "physics", "Eng", "Physics dept", "chemistry"}

InitLookup == InitBot

FindFacultyByName ==
    /\ call = Idle
    /\ \E name \in LookupNames :
         /\ call' = [op |-> "find_faculty_by_name", args |-> <<name>>]
         /\ ret' = Returned(find_faculty_by_name(kb, name))
    /\ UNCHANGED <<kb, conversation_history, clock>>
    /\ UNCHANGED crawlVars
    /\ UNCHANGED serverVars

GetDepartmentInfo ==
    /\ call = Idle
    /\ \E dept_name \in LookupNames :
         /\ call' = [op |-> "get_department_info", args |-> <<dept_name>>]
         /\ ret' = Returned(get_department_info(kb, dept_name))
    /\ UNCHANGED <<kb, conversation_history, clock>>
    /\ UNCHANGED crawlVars
    /\ UNCHANGED serverVars

NextLookup ==
    \/ FindFacultyByName
    \/ GetDepartmentInfo
    \/ Return

SpecLookup == InitLookup /\ [][NextLookup]_vars

-----------------------------------------------------------------------------
(* Properties of the chatbot *)

\* C1: chat(query) returns a string and never raises, also for a query from
\* which no token survives preprocessing.
C1_ChatNeverRaises == call.op = "chat" => ~IsRaised(ret)

\* the fixed text of the intent
Fallback(intent) ==
    CASE intent = "faculty_info"  -> FacultyFallback
      [] intent = "admissions"    -> AdmissionsFallback
      [] intent = "departments"   -> DepartmentFallback
      [] intent = "notifications" -> NotificationsFallback
      [] OTHER                    -> GeneralFallback

\* the structured lookup of the query's intent finds no record
LookupMisses(query) ==
    LET intent == detect_intent(query)
        entities == extract_entities(query)
    IN  CASE intent = "faculty_info" ->
                \/ entities.person = <<>>
                \/ find_faculty_by_name(kb, entities.person[1]) = <<>>
          [] intent = "departments" ->
                \/ entities.department = <<>>
                \/ get_department_info(kb, entities.department[1]) = <<>>
          [] intent = "notifications" -> kb.notifications = <<>>
          [] OTHER -> TRUE

\* C19: on a knowledge base without pages chat never raises, and returns
\* the fixed text of the query's intent whenever the structured lookup of
\* that intent finds no record.
C19_NoPagesGivesFallback ==
    call.op = "chat" /\ kb.pages = <<>> =>
        /\ ~IsRaised(ret)
        /\ LookupMisses(call.args[1]) =>
              ret.value = Fallback(detect_intent(call.args[1]))

\* the query without a word, which raises on a page with words, and a
\* general query were answered on a knowledge base without pages
C19_Witness ==
    /\ kb.pages = <<>>
    /\ call.op = "chat"
    /\ call.args[1] = "computer science"
    /\ ret = Returned(GeneralFallback)
    /\ \E i \in DOMAIN conversation_history :
          /\ conversation_history[i].type = "bot"
          /\ conversation_history[i - 1].query = "Is it?"
          /\ conversation_history[i].response = GeneralFallback

\* what chat returned to the query logged at place i: <<>> if it raised
Answer(i) ==
    IF i + 1 \in DOMAIN conversation_history /\ conversation_history[i + 1].type = "bot"
    THEN <<conversation_history[i + 1].response>>
    ELSE <<>>

\* C20: two chat calls with the same query on the same knowledge base, made
\* with different conversation logs behind them, return the same response.
C20_SameQuerySameResponse ==
    \A i, j \in DOMAIN conversation_history :
        /\ i < j
        /\ conversation_history[i].type = "user"
        /\ conversation_history[j].type = "user"
        /\ conversation_history[i].query = conversation_history[j].query
        => Answer(i) = Answer(j)

\* the same query was answered twice, the second time with the first turn
\* in the log
C20_Witness ==
    /\ Len(conversation_history) = 4
    /\ conversation_history[1].query = conversation_history[3].query
    /\ Answer(1) # <<>>
    /\ Answer(1) = Answer(3)
    /\ kb.pages # <<>>

\* the pages of the category that score above zero for the query
ScoringOfCategory(query, category) ==
    {i \in Positive(query) : kb.pages[i].content_type = category}

\* C11: for a faculty, departments or admissions query the fixed guidance
\* string of the category is the response only on total miss: the structured
\* lookup found no record and no page of the category scores above zero.
C11_GuidanceOnlyOnTotalMiss ==
    call.op = "chat" /\ ~IsRaised(ret) =>
        LET query == call.args[1]
            intent == detect_intent(query)
            entities == extract_entities(query)
        IN  /\ intent = "faculty_info" /\ ret.value = FacultyFallback =>
                  /\ \/ entities.person = <<>>
                     \/ find_faculty_by_name(kb, entities.person[1]) = <<>>
                  /\ ScoringOfCategory(query, "faculty") = {}
            /\ intent = "departments" /\ ret.value = DepartmentFallback =>
                  /\ \/ entities.department = <<>>
                     \/ get_department_info(kb, entities.department[1]) = <<>>
                  /\ ScoringOfCategory(query, "department") = {}
            /\ intent = "admissions" /\ ret.value = AdmissionsFallback =>
                  ScoringOfCategory(query, "admissions") = {}

\* the number of chat calls that have returned: each of them left its
\* response in the log
ReturnedCalls == Len(SelectSeq(conversation_history, LAMBDA e : e.type = "bot"))

\* C29: the conversation log is append-only: no step changes or removes an
\* entry; a chat call that returns has appended one timestamped user entry
\* with the query and behind it one timestamped bot entry with the response;
\* and after n returned calls the log holds 2n entries, user and bot in turn.
C29_LogIsAppendOnlyInPairs ==
    /\ [][\A i \in DOMAIN conversation_history :
            /\ i \in DOMAIN conversation_history'
            /\ conversation_history'[i] = conversation_history[i]]_vars
    /\ [][call'.op = "chat" /\ call.op # "chat" /\ ~IsRaised(ret') =>
            \E t \in 1..(2 * MaxTurns) :
                conversation_history' = conversation_history \o
                   << [timestamp |-> t, query |-> call'.args[1], type |-> "user"],
                      [timestamp |-> t + 1, response |-> ret'.value, type |-> "bot"] >>]_vars
    /\ [](call.op = "chat" /\ ~IsRaised(ret) =>
            /\ Len(conversation_history) = 2 * ReturnedCalls
            /\ \A i \in DOMAIN conversation_history :
                  conversation_history[i].type = IF i % 2 = 1 THEN "user" ELSE "bot")

\* the records a lookup goes through, in index order: the rows with a name
Named(records) == SelectSeq(records, LAMBDA r : r.name # "")

\* C26: the lookups compare names without regard to case; they return the
\* record whose name is the queried name when there is one, otherwise the
\* first record in index order whose name contains the whole queried name,
\* and nothing when no record name contains it.
C26_LookupByWholeName ==
    call.op \in {"find_faculty_by_name", "get_department_info"} =>
        LET name == Lower(call.args[1])
            records == Named(IF call.op = "find_faculty_by_name"
                             THEN kb.faculty ELSE kb.departments)
            exact == {i \in DOMAIN records : Lower(records[i].name) = name}
            containing == {i \in DOMAIN records : Contains(Lower(records[i].name), name)}
        IN  IF exact # {}
            THEN \E i \in exact : ret.value = <<records[i]>>
            ELSE IF containing # {}
            THEN \A i \in containing :
                    (\A j \in containing : i <= j) => ret.value = <<records[i]>>
            ELSE ret.value = <<>>

-----------------------------------------------------------------------------
(* flask_server.py : specification SpecServer *)

\* the threads that run_scraper is started on, one per POST /api/scrape
ScrapeThreads == {"scrape1", "scrape2"}
Threads == {"main"} \cup ScrapeThreads

\* the POST /api/chat requests
ChatRequests == {"chat1"}

\* data.get('message', '')
Messages == {" ", "Who is Dr. Fakhruddin?", "computer science "}

\* the store before a scrape and the store a scrape leaves
OldStore == Store(<<PageCS>>, <<Fakhruddin>>, <<>>, <<>>)
NewStore ==
    Store(<<PageCS, PageFaculty>>,
          <<Faculty("Dr. Fakhruddin", "Professor", "Computer Science", "", "", "")>>,
          <<Physics>>, <<Holiday>>)

\* load_knowledge_base: the tables in the order they are read
Tables == <<"pages", "faculty", "departments", "notifications">>

\* the rows a SELECT returns
Select(store, table) == IF store.exists THEN store[table] ELSE <<>>

\* a UniversityAIChatbot under construction, its kb attributes not yet set;
\* loaded counts the tables read so far; found is history: whether the store
\* existed when the construction began
NewObject(found) ==
    [stage |-> "load", loaded |-> 0, found |-> found,
     pages |-> <<>>, faculty |-> <<>>, departments |-> <<>>, notifications |-> <<>>,
     faculty_index |-> <<>>, department_index |-> <<>>,
     conversation_history |-> <<>>]

\* self.kb of a chatbot object
KnowledgeBase(o) ==
    [pages |-> o.pages, faculty |-> o.faculty, departments |-> o.departments,
     notifications |-> o.notifications, faculty_index |-> o.faculty_index,
     department_index |-> o.department_index]

\* DEMO_RESPONSES, each text named by its key
DEMO_RESPONSES(key) == "demo response: " \o key

get_demo_response(message) ==
    LET msg == Lower(message)
    IN  IF Contains(msg, "help") THEN DEMO_RESPONSES("help")
        ELSE IF \E word \in {"faculty", "professor", "teacher"} : Contains(msg, word)
             THEN DEMO_RESPONSES("faculty")
        ELSE IF \E word \in {"admission", "apply", "requirement"} : Contains(msg, word)
             THEN DEMO_RESPONSES("admission")
        ELSE DEMO_RESPONSES("default")

\* the replies of the chat endpoint
Ok(response, timestamp) ==
    [status |-> "200", response |-> response, timestamp |-> timestamp]
BadRequest == [status |-> "400", error |-> "No message provided"]
InternalError == [status |-> "500", error |-> "Internal server error"]

Thread(at, obj, result) == [pc |-> at, obj |-> obj, result |-> result]
NoResult == [none |-> TRUE]

Request(at, message, self, seen, reply) ==
    [pc |-> at, message |-> message, self |-> self, seen |-> seen, reply |-> reply]

InitServer ==
    /\ NoCrawl
    /\ NoBot
    /\ db_file \in {Absent, OldStore}
    /\ CHATBOT_AVAILABLE \in BOOLEAN
    /\ chatbot_instance = 0
    /\ heap = <<>>
    /\ threads = [t \in Threads |->
                    Thread(IF t = "main" THEN "init" ELSE "idle", 0, NoResult)]
    /\ requests = [r \in ChatRequests |-> Request("idle", "", 0, NoResult, NoResult)]

Serving == threads["main"].pc = "serving"

\* initialize_chatbot, up to the call of UniversityAIChatbot()
InitializeChatbot ==
    /\ threads["main"].pc = "init"
    /\ IF ~CHATBOT_AVAILABLE \/ ~db_file.exists
       THEN threads' = [threads EXCEPT !["main"] = Thread("serving", 0, Returned(FALSE))]
       ELSE threads' = [threads EXCEPT !["main"].pc = "construct"]
    /\ UNCHANGED <<db_file, CHATBOT_AVAILABLE, chatbot_instance, heap, requests>>
    /\ UNCHANGED crawlVars
    /\ UNCHANGED botVars

\* trigger_scraping: the thread of run_scraper starts, or the reply is 400
TriggerScraping(t) ==
    /\ Serving
    /\ threads[t].pc = "idle"
    /\ IF ~CHATBOT_AVAILABLE
       THEN threads' = [threads EXCEPT ![t].pc = "refused"]
       ELSE threads' = [threads EXCEPT ![t].pc = "scraper"]
    /\ UNCHANGED <<db_file, CHATBOT_AVAILABLE, chatbot_instance, heap, requests>>
    /\ UNCHANGED crawlVars
    /\ UNCHANGED botVars

\* run_scraper: UniversityDataScraper().scrape_university_complete(max_pages=200)
\* returns; it has populated the store or has found nothing to write
RunScraper(t) ==
    /\ threads[t].pc = "scraper"
    /\ db_file' \in {db_file, NewStore}
    /\ threads' = [threads EXCEPT ![t].pc = "construct"]
    /\ UNCHANGED <<CHATBOT_AVAILABLE, chatbot_instance, heap, requests>>
    /\ UNCHANGED crawlVars
    /\ UNCHANGED botVars

\* a constructor that makes the object the live instance before it is loaded
ConstructAndInstall(t) ==
    /\ threads[t].pc = "construct"
    /\ db_file.exists
    /\ heap' = Append(heap, NewObject(db_file.exists))
    /\ threads' = [threads EXCEPT ![t] = Thread("load", Len(heap) + 1, NoResult)]
    /\ chatbot_instance' = Len(heap) + 1
    /\ UNCHANGED <<db_file, CHATBOT_AVAILABLE, requests>>
    /\ UNCHANGED crawlVars
    /\ UNCHANGED botVars

\* UniversityAIChatbot() begins: load_knowledge_base raises, or the object is
\* there and its tables are about to be read. initialize_chatbot catches the
\* exception and returns False; in run_scraper it ends the thread.
Construct(t) ==
    /\ threads[t].pc = "construct"
    /\ LET r == UniversityKnowledgeBase(db_file)
       IN  IF IsRaised(r)
           THEN /\ threads' = [threads EXCEPT ![t] =
                                IF t = "main" THEN Thread("serving", 0, Returned(FALSE))
                                ELSE Thread("raised", 0, r)]
                /\ heap' = heap
           ELSE /\ heap' = Append(heap, NewObject(db_file.exists))
                /\ threads' = [threads EXCEPT ![t] = Thread("load", Len(heap) + 1, NoResult)]
    /\ UNCHANGED <<db_file, CHATBOT_AVAILABLE, chatbot_instance, requests>>
    /\ UNCHANGED crawlVars
    /\ UNCHANGED botVars

\* load_knowledge_base: the next SELECT fills its attribute
LoadTable(t) ==
    /\ threads[t].pc = "load"
    /\ LET o == heap[threads[t].obj]
       IN  /\ o.loaded < Len(Tables)
           /\ heap' = [heap EXCEPT ![threads[t].obj] =
                        [o EXCEPT ![Tables[o.loaded + 1]] =
                                        Select(db_file, Tables[o.loaded + 1]),
                                  !.loaded = o.loaded + 1]]
    /\ UNCHANGED <<db_file, CHATBOT_AVAILABLE, chatbot_instance, threads, requests>>
    /\ UNCHANGED crawlVars
    /\ UNCHANGED botVars

\* UniversityKnowledgeBase.__init__ after load_knowledge_base: build_indexes
BuildIndexes(t) ==
    /\ threads[t].pc = "load"
    /\ LET o == heap[threads[t].obj]
       IN  /\ o.loaded = Len(Tables)
           /\ heap' = [heap EXCEPT ![threads[t].obj] =
                        [o EXCEPT !.faculty_index = IndexByName(<<>>, o.faculty, 1),
                                  !.department_index = IndexByName(<<>>, o.departments, 1),
                                  !.stage = "indexed"]]
    /\ threads' = [threads EXCEPT ![t].pc = "install"]
    /\ UNCHANGED <<db_file, CHATBOT_AVAILABLE, chatbot_instance, requests>>
    /\ UNCHANGED crawlVars
    /\ UNCHANGED botVars

\* UniversityAIChatbot.__init__ returns and the global is assigned
Install(t) ==
    /\ threads[t].pc = "install"
    /\ heap' = [heap EXCEPT ![threads[t].obj].conversation_history = <<>>,
                            ![threads[t].obj].stage = "ready"]
    /\ chatbot_instance' = threads[t].obj
    /\ threads' = [threads EXCEPT ![t] =
                    IF t = "main" THEN Thread("serving", threads[t].obj, Returned(TRUE))
                    ELSE Thread("done", threads[t].obj, NoResult)]
    /\ UNCHANGED <<db_file, CHATBOT_AVAILABLE, requests>>
    /\ UNCHANGED crawlVars
    /\ UNCHANGED botVars

\* chat(), lines 509-522: the message is read and chatbot_instance is tested;
\* without an instance the demo response is the reply
ChatCheck(r) ==
    /\ Serving
    /\ requests[r].pc = "idle"
    /\ \E data \in Messages :
         LET message == StripSpace(data)
         IN  IF message = ""
             THEN /\ requests' = [requests EXCEPT ![r] =
                                    Request("done", message, 0, NoResult, BadRequest)]
                  /\ clock' = clock
             ELSE IF chatbot_instance # 0
             THEN /\ requests' = [requests EXCEPT ![r] =
                                    Request("call", message, 0, NoResult, NoResult)]
                  /\ clock' = clock
             ELSE /\ requests' = [requests EXCEPT ![r] =
                                    Request("done", message, 0, NoResult,
                                            Ok(get_demo_response(message), clock + 1))]
                  /\ clock' = clock + 1
    /\ UNCHANGED <<db_file, CHATBOT_AVAILABLE, chatbot_instance, heap, threads>>
    /\ UNCHANGED <<kb, conversation_history, call, ret>>
    /\ UNCHANGED crawlVars

\* line 520, chatbot_instance.chat(message): the global is read again and is
\* self from here on; chat appends the user's entry, and the handler of the
\* intent looks into the records and indexes of self.kb
ChatCall(r) ==
    /\ requests[r].pc = "call"
    /\ LET self == chatbot_instance
           o == heap[self]
       IN  /\ heap' = [heap EXCEPT ![self].conversation_history =
                        Append(o.conversation_history,
                               [timestamp |-> clock + 1,
                                query |-> requests[r].message, type |-> "user"])]
           /\ requests' = [requests EXCEPT ![r] =
                            Request("respond", requests[r].message, self,
                                    KnowledgeBase(o), NoResult)]
    /\ clock' = clock + 1
    /\ UNCHANGED <<db_file, CHATBOT_AVAILABLE, chatbot_instance, threads>>
    /\ UNCHANGED <<kb, conversation_history, call, ret>>
    /\ UNCHANGED crawlVars

\* the handler searches self.kb.pages and the response is composed; an
\* exception of chat is answered with 500 (lines 529-531)
ChatRespond(r) ==
    /\ requests[r].pc = "respond"
    /\ LET self == requests[r].self
           o == heap[self]
           seen == [requests[r].seen EXCEPT !.pages = o.pages]
           response == generate_response(seen, requests[r].message)
       IN  IF IsRaised(response)
           THEN /\ heap' = heap
                /\ requests' = [requests EXCEPT ![r].pc = "done", ![r].seen = seen,
                                                ![r].reply = InternalError]
                /\ clock' = clock
           ELSE /\ heap' = [heap EXCEPT ![self].conversation_history =
                              Append(o.conversation_history,
                                     [timestamp |-> clock + 1,
                                      response |-> response.value, type |-> "bot"])]
                /\ requests' = [requests EXCEPT ![r].pc = "done", ![r].seen = seen,
                                                ![r].reply = Ok(response.value, clock + 2)]
                /\ clock' = clock + 2
    /\ UNCHANGED <<db_file, CHATBOT_AVAILABLE, chatbot_instance, threads>>
    /\ UNCHANGED <<kb, conversation_history, call, ret>>
    /\ UNCHANGED crawlVars

NextServer ==
    \/ InitializeChatbot
    \/ \E t \in ScrapeThreads : TriggerScraping(t)
    \/ \E t \in ScrapeThreads : RunScraper(t)
    \/ \E t \in Threads : Construct(t)
    \/ \E t \in Threads : LoadTable(t)
    \/ \E t \in Threads : BuildIndexes(t)
    \/ \E t \in Threads : Install(t)
    \/ \E r \in ChatRequests : ChatCheck(r)
    \/ \E r \in ChatRequests : ChatCall(r)
    \/ \E r \in ChatRequests : ChatRespond(r)

SpecServer == InitServer /\ [][NextServer]_vars

-----------------------------------------------------------------------------
(* Properties of the server *)

\* C7: while the store database does not exist, a construction of the
\* knowledge base ends in the FileNotFoundError that says to run the scraper
\* first (initialize_chatbot turns it into False), no chatbot object comes
\* into being and chatbot_instance stays None.
C7_StoreAbsentIsAnError ==
    /\ [](/\ ~db_file.exists => heap = <<>> /\ chatbot_instance = 0
          /\ \A o \in DOMAIN heap : heap[o].found
          /\ \A t \in ScrapeThreads :
               threads[t].pc = "raised" =>
                   threads[t] = Thread("raised", 0, Raised(StoreAbsentError)))
    /\ [][\A t \in Threads :
            threads[t].pc = "construct" /\ ~db_file.exists /\ threads'[t] # threads[t]
            => /\ heap' = heap
               /\ chatbot_instance' = chatbot_instance
               /\ threads'[t] = IF t = "main"
                                THEN Thread("serving", 0, Returned(FALSE))
                                ELSE Thread("raised", 0, Raised(StoreAbsentError))]_vars

\* a run_scraper thread found no store after the scrape and ended in the error
C7_Witness ==
    \E t \in ScrapeThreads :
        /\ threads[t].pc = "raised"
        /\ ~db_file.exists
        /\ chatbot_instance = 0

Loaded(o) == heap[o].stage = "ready"

\* the reply that the chat endpoint gives for what chat returned or raised
Answers(reply, response) ==
    IF IsRaised(response) THEN reply = InternalError
    ELSE reply.status = "200" /\ reply.response = response.value

====
